---------------------------- MODULE Spec2Model ----------------------------
(***************************************************************************)
(* A model of glyphana, a Unicode character browser.                       *)
(*                                                                         *)
(*   - SearchSpec      the search engine of src/src/search.rs              *)
(*                     (SearchParams::new and SearchEngine::search),       *)
(*                     applied to inputs drawn from bounded sets;          *)
(*   - ClassifierSpec  the CharacterInspector implementations of           *)
(*                     src/src/categories.rs;                              *)
(*   - Spec            the application state of src/src/app.rs             *)
(*                     (GlyphanaApp) driven by its UI events.              *)
(*                                                                         *)
(* A char is its code point (a natural number), a String is a sequence of  *)
(* chars, an Option is a sequence of length 0 (None) or 1 (Some), and a    *)
(* BTreeMap<char, String> is the sequence of its entries in key order.     *)
(***************************************************************************)
EXTENDS Integers, Sequences, FiniteSets, TLC

VARIABLES
  \* The arguments and the result of one call of SearchEngine::search.
  params,                \* &SearchParams
  full_cache,            \* &BTreeMap<char, String>, the full index
  categories,            \* &[Category]
  selected_category_id,  \* egui::Id
  results,               \* the BTreeMap the call returned
  pc,                    \* where the call is: "ready", then "done"
  \* One UnicodeCategory asked through the CharacterInspector trait.
  inspector,             \* the UnicodeCategory
  inspected_char,        \* the char given to contains
  characters_result,     \* what characters() returned, None before the call
  contains_result,       \* what contains() returned, None before the call
  \* The application.
  app,                   \* the GlyphanaApp
  popped                 \* what pop_front() returned in the last call of
                         \* update, None when the call did not reach it

searchVars == << params, full_cache, categories, selected_category_id, results, pc >>
inspectorVars == << inspector, inspected_char, characters_result, contains_result >>
appVars == << app, popped >>
vars == << searchVars, inspectorVars, appVars >>

(***************************************************************************)
(* Text literals.                                                          *)
(***************************************************************************)

\* The printable ASCII characters from U+0020 to U+007E, in code order
\* (the double quote, the backslash and the backtick are written as stand-ins
\* that no literal of this module uses).
Ascii ==
  << " ", "!", "dq", "#", "$", "%", "&", "'", "(", ")", "*", "+", ",", "-", ".", "/",
     "0", "1", "2", "3", "4", "5", "6", "7", "8", "9", ":", ";", "<", "=", ">", "?",
     "@", "A", "B", "C", "D", "E", "F", "G", "H", "I", "J", "K", "L", "M", "N", "O",
     "P", "Q", "R", "S", "T", "U", "V", "W", "X", "Y", "Z", "[", "bs", "]", "^", "_",
     "bt", "a", "b", "c", "d", "e", "f", "g", "h", "i", "j", "k", "l", "m", "n", "o",
     "p", "q", "r", "s", "t", "u", "v", "w", "x", "y", "z", "{", "|", "}", "~" >>

\* The code point of a one-character ASCII literal.
Ord(ch) == 31 + (CHOOSE i \in DOMAIN Ascii : Ascii[i] = ch)

\* The String written as a sequence of one-character literals.
Str(lits) == [i \in 1..Len(lits) |-> Ord(lits[i])]

(***************************************************************************)
(* Option, and small arithmetic.                                           *)
(***************************************************************************)
None == << >>
Some(v) == << v >>
IsSome(o) == Len(o) = 1
Unwrap(o) == o[1]

Min2(a, b) == IF a <= b THEN a ELSE b

RECURSIVE Concat(_)
\* The concatenation of a sequence of sequences (halving keeps the
\* evaluation shallow).
Concat(ss) ==
  IF Len(ss) = 0 THEN << >>
  ELSE IF Len(ss) = 1 THEN ss[1]
  ELSE Concat(SubSeq(ss, 1, Len(ss) \div 2))
         \o Concat(SubSeq(ss, Len(ss) \div 2 + 1, Len(ss)))

\* The least element of a non-empty set of integers.
Min(S) == CHOOSE m \in S : \A x \in S : m <= x

\* The elements of a sequence.
Range(s) == { s[i] : i \in DOMAIN s }

(***************************************************************************)
(* Rust's std: char and str.                                               *)
(***************************************************************************)

\* char::from_u32 on a value given as 16-bit halves (hi * 65536 + lo): None
\* above U+10FFFF and for the surrogates U+D800..U+DFFF.
char_from_u32(code) ==
  IF code.hi > 16 THEN None
  ELSE IF code.hi = 0 /\ code.lo >= 55296 /\ code.lo <= 57343 THEN None
  ELSE Some(code.hi * 65536 + code.lo)

\* A code point as the u32 it is cast to (chr as u32).
as_u32(c) == [hi |-> c \div 65536, lo |-> c % 65536]

\* char::is_whitespace (the White_Space property).
is_whitespace(c) ==
  \/ c \in 9..13
  \/ c \in {32, 133, 160, 5760, 8232, 8233, 8239, 8287, 12288}
  \/ c \in 8192..8202

\* char::is_ascii_hexdigit.
is_ascii_hexdigit(c) == c \in 48..57 \/ c \in 65..70 \/ c \in 97..102

\* char::is_alphabetic (the Alphabetic property), for the scripts the model
\* draws its characters from: Basic Latin, Latin-1 Supplement, Latin
\* Extended-A, Greek, Armenian capitals.
is_alphabetic(c) ==
  \/ c \in 65..90 \/ c \in 97..122
  \/ c \in {170, 181, 186}
  \/ (c \in 192..255 /\ c \notin {215, 247})
  \/ c \in 256..383
  \/ c \in 880..884 \/ c \in 886..887 \/ c \in 891..893 \/ c = 895 \/ c = 902
  \/ c \in 904..906 \/ c = 908 \/ (c \in 910..1013 /\ c # 930)
  \/ c \in 1329..1366

\* char::to_lowercase: the lower-case mapping of one char, a String of one
\* or more chars (U+0130 maps to "i" followed by U+0307).
char_to_lowercase(c) ==
  IF c \in 65..90 THEN << c + 32 >>
  ELSE IF c \in 192..222 /\ c # 215 THEN << c + 32 >>
  ELSE IF c = 304 THEN << 105, 775 >>
  ELSE IF c \in 913..939 /\ c # 930 THEN << c + 32 >>
  ELSE IF c \in 1329..1366 THEN << c + 48 >>
  ELSE << c >>

\* str::to_lowercase.
to_lowercase(s) == Concat([i \in 1..Len(s) |-> char_to_lowercase(s[i])])

\* The UTF-8 encoding of one char.
encode_utf8(c) ==
  IF c < 128 THEN << c >>
  ELSE IF c < 2048 THEN << 192 + (c \div 64), 128 + (c % 64) >>
  ELSE IF c < 65536
    THEN << 224 + (c \div 4096), 128 + ((c \div 64) % 64), 128 + (c % 64) >>
  ELSE << 240 + (c \div 262144), 128 + ((c \div 4096) % 64),
          128 + ((c \div 64) % 64), 128 + (c % 64) >>

\* The bytes of a String (str::as_bytes).
as_bytes(s) == Concat([i \in 1..Len(s) |-> encode_utf8(s[i])])

\* str::len: the length in bytes.
str_len(s) == Len(as_bytes(s))

\* str::starts_with.
starts_with(s, prefix) ==
  Len(prefix) <= Len(s) /\ SubSeq(s, 1, Len(prefix)) = prefix

\* str::contains with a string pattern.
contains(s, pattern) ==
  \E i \in 0..(Len(s) - Len(pattern)) : SubSeq(s, i + 1, i + Len(pattern)) = pattern

\* str::strip_prefix.
strip_prefix(s, prefix) ==
  IF starts_with(s, prefix) THEN Some(SubSeq(s, Len(prefix) + 1, Len(s))) ELSE None

\* The positions of the chars of s that are not whitespace.
non_whitespace(s) == { i \in DOMAIN s : ~is_whitespace(s[i]) }

trim_start(s) ==
  IF non_whitespace(s) = {} THEN << >>
  ELSE SubSeq(s, Min(non_whitespace(s)), Len(s))

trim_end(s) ==
  IF non_whitespace(s) = {} THEN << >>
  ELSE SubSeq(s, 1, CHOOSE i \in non_whitespace(s) :
                      \A j \in non_whitespace(s) : j <= i)

\* str::trim.
trim(s) == trim_end(trim_start(s))

\* str::split_whitespace: the maximal runs of non-whitespace chars, in the
\* order of their first positions.
split_whitespace(s) ==
  LET word_starts == { i \in non_whitespace(s) :
                        i = 1 \/ is_whitespace(s[i - 1]) }
      word_end(i) == Min({ j \in i..Len(s) :
                            j = Len(s) \/ is_whitespace(s[j + 1]) })
      nth_start(k) == CHOOSE i \in word_starts :
                        Cardinality({ j \in word_starts : j < i }) = k - 1
  IN [k \in 1..Cardinality(word_starts) |->
        SubSeq(s, nth_start(k), word_end(nth_start(k)))]

\* The value of a digit in a radix, or -1.
to_digit(c, radix) ==
  LET v == IF c \in 48..57 THEN c - 48
           ELSE IF c \in 97..122 THEN c - 87
           ELSE IF c \in 65..90 THEN c - 55
           ELSE 36
  IN IF v < radix THEN v ELSE -1

RECURSIVE radix_fold(_, _, _, _)
\* The digits of s from position i on, folded into acc, a u32 kept as
\* 16-bit halves; None at a char that is no digit and on overflow of u32.
radix_fold(s, i, radix, acc) ==
  IF i > Len(s) THEN Some(acc)
  ELSE LET d == to_digit(s[i], radix)
           lo == acc.lo * radix + d
           hi == acc.hi * radix + (lo \div 65536)
       IN IF d < 0 \/ hi >= 65536 THEN None
          ELSE radix_fold(s, i + 1, radix, [hi |-> hi, lo |-> lo % 65536])

\* u32::from_str_radix: an optional '+', then one or more digits.
from_str_radix(s, radix) ==
  LET digits == IF s # << >> /\ Head(s) = 43 THEN Tail(s) ELSE s
  IN IF digits = << >> THEN None
     ELSE radix_fold(digits, 1, radix, [hi |-> 0, lo |-> 0])

\* str::parse::<u32>.
parse_u32(s) == from_str_radix(s, 10)


(***************************************************************************)
(* BTreeMap<char, String>: the entries [chr, name] in ascending key order. *)
(***************************************************************************)

\* BTreeMap::get.
get(cache, chr) ==
  IF \E i \in DOMAIN cache : cache[i].chr = chr
    THEN Some((CHOOSE e \in Range(cache) : e.chr = chr).name)
    ELSE None

\* BTreeMap::insert: the entry replaces one of the same key, or goes to its
\* place in key order.
insert(cache, e) ==
  SelectSeq(cache, LAMBDA x : x.chr < e.chr) \o << e >>
    \o SelectSeq(cache, LAMBDA x : x.chr > e.chr)

\* Iterator::collect into a BTreeMap, the items inserted one after another:
\* for each key the last item that has it, in ascending key order.
collect(items) ==
  LET keys == { items[i].chr : i \in DOMAIN items }
      last(chr) == items[CHOOSE i \in DOMAIN items :
                     /\ items[i].chr = chr
                     /\ \A j \in DOMAIN items : items[j].chr = chr => j <= i]
      nth_key(k) == CHOOSE chr \in keys :
                      Cardinality({ x \in keys : x < chr }) = k - 1
  IN [k \in 1..Cardinality(keys) |-> last(nth_key(k))]

(***************************************************************************)
(* The crates the search engine calls.                                     *)
(***************************************************************************)

\* unicode_blocks: the blocks of the Unicode standard that hold the
\* characters of the model, as closed intervals of code points.
UnicodeBlocks ==
  << [name |-> "Basic Latin",          start |-> 0,      end |-> 127],
     [name |-> "Latin-1 Supplement",   start |-> 128,    end |-> 255],
     [name |-> "Latin Extended-A",     start |-> 256,    end |-> 383],
     [name |-> "Latin Extended-B",     start |-> 384,    end |-> 591],
     [name |-> "Greek and Coptic",     start |-> 880,    end |-> 1023],
     [name |-> "Cyrillic",             start |-> 1024,   end |-> 1279],
     [name |-> "Armenian",             start |-> 1328,   end |-> 1423],
     [name |-> "Arabic",               start |-> 1536,   end |-> 1791],
     [name |-> "Latin Extended Additional", start |-> 7680, end |-> 7935],
     [name |-> "General Punctuation",  start |-> 8192,   end |-> 8303],
     [name |-> "Currency Symbols",     start |-> 8352,   end |-> 8399],
     [name |-> "Arrows",               start |-> 8592,   end |-> 8703],
     [name |-> "Mathematical Operators", start |-> 8704, end |-> 8959],
     [name |-> "Latin Extended-C",     start |-> 11360,  end |-> 11391],
     [name |-> "Latin Extended-D",     start |-> 42784,  end |-> 43007],
     [name |-> "Latin Extended-E",     start |-> 43824,  end |-> 43887],
     [name |-> "Latin Extended-F",     start |-> 67456,  end |-> 67519],
     [name |-> "Latin Extended-G",     start |-> 122624, end |-> 122879],
     [name |-> "Miscellaneous Symbols and Pictographs",
                                       start |-> 127744, end |-> 128511],
     [name |-> "Emoticons",            start |-> 128512, end |-> 128591] >>

\* The block of the table with a given name.
Block(name) == CHOOSE b \in Range(UnicodeBlocks) : b.name = name

\* unicode_blocks::find_unicode_block: the block a char lies in, None for a
\* code point that no block covers.
find_unicode_block(chr) ==
  IF \E b \in Range(UnicodeBlocks) : b.start <= chr /\ chr <= b.end
    THEN Some(CHOOSE b \in Range(UnicodeBlocks) : b.start <= chr /\ chr <= b.end)
    ELSE None

\* One row of the Wagner-Fischer table: prev is the row of the first i - 1
\* elements of a, x the i-th. An entry is reached from the row above by a
\* substitution or a deletion (or is the first column), then by insertions
\* along the row.
edit_distance_row(prev, x, b, i) ==
  LET from_above(k) ==
        IF k = 0 THEN i
        ELSE Min2(prev[k] + (IF x = b[k] THEN 0 ELSE 1), prev[k + 1] + 1)
  IN [j \in 1..(Len(b) + 1) |->
        Min({ from_above(k) + (j - 1 - k) : k \in 0..(j - 1) })] \o << >>

RECURSIVE edit_distance_rows(_, _, _, _)
\* The last entry of the table, prev being the row before the i-th.
edit_distance_rows(a, b, i, prev) ==
  IF i > Len(a) THEN prev[Len(b) + 1]
  ELSE CHOOSE d \in { edit_distance_rows(a, b, i + 1, row) :
                        row \in { edit_distance_row(prev, a[i], b, i) } } : TRUE

\* The Levenshtein distance of two sequences.
levenshtein(a, b) == edit_distance_rows(a, b, 1, [k \in 1..(Len(b) + 1) |-> k - 1])

\* stringzilla's sz_edit_distance: the Levenshtein distance of the two
\* strings' bytes.
sz_edit_distance(a, b) == levenshtein(as_bytes(a), as_bytes(b))


(***************************************************************************)
(* finl_unicode's general categories, for the code points of the scripts   *)
(* the model draws its characters from.                                    *)
(***************************************************************************)
is_letter_uppercase(c) ==
  \/ c \in 65..90
  \/ (c \in 192..222 /\ c # 215)
  \/ c = 304
  \/ (c \in 913..939 /\ c # 930)
  \/ c \in 1329..1366

is_letter_lowercase(c) ==
  \/ c \in 97..122
  \/ c = 181
  \/ (c \in 223..255 /\ c # 247)
  \/ c = 305
  \/ c \in 940..974
  \/ c \in 1377..1415

is_letter_other(c) == c \in {170, 186} \/ c \in 1568..1599

is_letter(c) == is_letter_uppercase(c) \/ is_letter_lowercase(c) \/ is_letter_other(c)

is_symbol_math(c) ==
  \/ c \in {43, 60, 61, 62, 124, 126, 172, 177, 215, 247, 1014}
  \/ c \in 8592..8596
  \/ c \in 8704..8959

is_symbol_currency(c) == c \in {36, 162, 163, 164, 165, 1423} \/ c \in 8352..8384

is_symbol(c) ==
  \/ is_symbol_math(c)
  \/ is_symbol_currency(c)
  \/ c \in {94, 96, 168, 175, 180, 184}
  \/ c \in {166, 169, 174, 176}
  \/ c \in 8597..8703
  \/ c \in 127744..128591

is_punctuation(c) ==
  \/ c \in 33..35 \/ c \in 37..42 \/ c \in 44..47 \/ c \in {58, 59, 63, 64}
  \/ c \in 91..93 \/ c \in {95, 123, 125}
  \/ c \in {161, 167, 171, 182, 183, 187, 191}
  \/ c \in 8208..8231

is_number_decimal(c) == c \in 48..57 \/ c \in 1632..1641

is_number(c) == is_number_decimal(c) \/ c \in {178, 179, 185, 188, 189, 190}

(***************************************************************************)
(* src/src/categories.rs: Category, CharacterInspector, UnicodeCategory.   *)
(***************************************************************************)

\* egui::Id::new of a name: a hash of the name alone, taken to be free of
\* collisions on the names of the model.
Id(name) == [id_of |-> name]

\* Category::new.
Category(name, unicode_category) ==
  [name |-> name, unicode_category |-> unicode_category]

\* Category::id.
id(category) == Id(category.name)

\* The variants of enum UnicodeCategory.
BlockCategory(block) == [kind |-> "Block", block |-> block]
MultiBlockCategory(blocks) == [kind |-> "MultiBlock", blocks |-> blocks]
CollectionCategory(chars) == [kind |-> "Collection", chars |-> chars]
PropertyCategory(prop) == [kind |-> "Property", prop |-> prop]

\* The code points of start..=end that char::from_u32 accepts, in order.
valid_chars(start, end) ==
  SelectSeq([i \in 1..(end - start + 1) |-> start + i - 1],
            LAMBDA code : IsSome(char_from_u32(as_u32(code))))

\* <UnicodeBlock as CharacterInspector>::characters.
block_characters(block) == valid_chars(block.start, block.end)

\* <UnicodeBlock as CharacterInspector>::contains.
block_contains(block, c) == c >= block.start /\ c <= block.end

\* <UnicodeMultiBlock as CharacterInspector>::characters.
multi_block_characters(blocks) ==
  Concat([i \in 1..Len(blocks) |-> block_characters(blocks[i])])

\* <UnicodeMultiBlock as CharacterInspector>::contains.
multi_block_contains(blocks, c) ==
  \E i \in DOMAIN blocks : block_contains(blocks[i], c)

RECURSIVE set_to_seq(_)
\* The elements of a hash set in the order its iterator yields them (any
\* order: here the one CHOOSE picks).
set_to_seq(set) ==
  IF set = {} THEN << >>
  ELSE LET x == CHOOSE x \in set : TRUE IN << x >> \o set_to_seq(set \ {x})

\* <UnicodeCollection as CharacterInspector>::characters.
collection_characters(chars) == set_to_seq(chars)

\* <UnicodeCollection as CharacterInspector>::contains.
collection_contains(chars, c) == c \in chars

\* PropertyType::matches.
matches(prop, c) ==
  CASE prop = "UppercaseLetters" -> is_letter_uppercase(c)
    [] prop = "LowercaseLetters" -> is_letter_lowercase(c)
    [] prop = "MathSymbols"      -> is_symbol_math(c)
    [] prop = "CurrencySymbols"  -> is_symbol_currency(c)
    [] prop = "Punctuation"      -> is_punctuation(c)
    [] prop = "DecimalNumbers"   -> is_number_decimal(c)
    [] prop = "AllLetters"       -> is_letter(c)
    [] prop = "AllNumbers"       -> is_number(c)
    [] prop = "AllSymbols"       -> is_symbol(c)

\* The code point ranges that characters() scans for a Property category.
PropertyRanges ==
  << << 32, 126 >>, << 160, 591 >>, << 880, 1327 >>, << 8192, 8303 >>,
     << 8304, 8591 >>, << 8592, 8703 >>, << 8704, 8959 >>, << 8352, 8399 >>,
     << 9472, 9599 >>, << 9728, 9983 >>, << 127744, 128511 >> >>

\* The Property arm of <UnicodeCategory as CharacterInspector>::characters.
property_characters(prop) ==
  Concat([i \in 1..Len(PropertyRanges) |->
            SelectSeq(valid_chars(PropertyRanges[i][1], PropertyRanges[i][2]),
                      LAMBDA c : matches(prop, c))])

\* <UnicodeCategory as CharacterInspector>::characters.
characters(cat) ==
  CASE cat.kind = "Block"      -> block_characters(cat.block)
    [] cat.kind = "MultiBlock" -> multi_block_characters(cat.blocks)
    [] cat.kind = "Collection" -> collection_characters(cat.chars)
    [] cat.kind = "Property"   -> property_characters(cat.prop)

\* <UnicodeCategory as CharacterInspector>::contains.
category_contains(cat, c) ==
  CASE cat.kind = "Block"      -> block_contains(cat.block, c)
    [] cat.kind = "MultiBlock" -> multi_block_contains(cat.blocks, c)
    [] cat.kind = "Collection" -> collection_contains(cat.chars, c)
    [] cat.kind = "Property"   -> matches(cat.prop, c)

(***************************************************************************)
(* src/src/search.rs: SearchParams and SearchEngine.                       *)
(***************************************************************************)

\* SearchParams::new.
SearchParams_new(text, only_categories, name_too, match_case) ==
  LET split_text == split_whitespace(text)
  IN [text |-> text,
      split_text |-> split_text,
      split_text_lower |->
        IF ~match_case
          THEN [i \in 1..Len(split_text) |-> to_lowercase(split_text[i])]
          ELSE << >>,
      search_only_categories |-> only_categories,
      search_name |-> name_too,
      case_sensitive |-> match_case]

\* The closure single_char_result of search_special_patterns.
single_char_result(chr, name) == insert(<< >>, [chr |-> chr, name |-> name])

\* SearchEngine::parse_hex_code.
parse_hex_code(text) ==
  LET cleaned == to_lowercase(trim(text))
      u_hex   == strip_prefix(cleaned, Str(<< "u", "+" >>))
      u_code  == from_str_radix(Unwrap(u_hex), 16)
      x_hex   == strip_prefix(cleaned, Str(<< "0", "x" >>))
      x_code  == from_str_radix(Unwrap(x_hex), 16)
      p_code  == from_str_radix(cleaned, 16)
  IN IF IsSome(u_hex) /\ IsSome(u_code) THEN char_from_u32(Unwrap(u_code))
     ELSE IF IsSome(x_hex) /\ IsSome(x_code) THEN char_from_u32(Unwrap(x_code))
     ELSE IF /\ \A i \in DOMAIN cleaned : is_ascii_hexdigit(cleaned[i])
             /\ str_len(cleaned) <= 6
             /\ IsSome(p_code)
       THEN char_from_u32(Unwrap(p_code))
     ELSE None

\* A faulty code search, which answers a code point that is not in the index
\* with an empty result.
code_search_empty_when_absent(text, index) ==
  LET hex      == parse_hex_code(text)
      hex_name == get(index, Unwrap(hex))
      dec      == parse_u32(text)
      dec_chr  == char_from_u32(Unwrap(dec))
      dec_name == get(index, Unwrap(dec_chr))
  IN IF IsSome(hex)
       THEN IF IsSome(hex_name)
              THEN Some(single_char_result(Unwrap(hex), Unwrap(hex_name)))
              ELSE Some(<< >>)
     ELSE IF IsSome(dec) /\ IsSome(dec_chr) /\ IsSome(dec_name)
       THEN Some(single_char_result(Unwrap(dec_chr), Unwrap(dec_name)))
     ELSE None

\* A faulty code search, which tries the decimal reading before the
\* hexadecimal one.
code_search_decimal_first(text, index) ==
  LET hex      == parse_hex_code(text)
      hex_name == get(index, Unwrap(hex))
      dec      == parse_u32(text)
      dec_chr  == char_from_u32(Unwrap(dec))
      dec_name == get(index, Unwrap(dec_chr))
  IN IF IsSome(dec) /\ IsSome(dec_chr) /\ IsSome(dec_name)
       THEN Some(single_char_result(Unwrap(dec_chr), Unwrap(dec_name)))
     ELSE IF IsSome(hex) /\ IsSome(hex_name)
       THEN Some(single_char_result(Unwrap(hex), Unwrap(hex_name)))
     ELSE None

\* The part of search_special_patterns after the single-character block:
\* the hex code search, then the decimal code search.
code_search(text, index) ==
  LET hex      == parse_hex_code(text)
      hex_name == get(index, Unwrap(hex))
      dec      == parse_u32(text)
      dec_chr  == char_from_u32(Unwrap(dec))
      dec_name == get(index, Unwrap(dec_chr))
  IN IF IsSome(hex) /\ IsSome(hex_name)
       THEN Some(single_char_result(Unwrap(hex), Unwrap(hex_name)))
     ELSE IF IsSome(dec) /\ IsSome(dec_chr) /\ IsSome(dec_name)
       THEN Some(single_char_result(Unwrap(dec_chr), Unwrap(dec_name)))
     ELSE None

\* A faulty search_special_patterns, which tries the code search before it
\* looks at a single character.
search_special_patterns_code_first(text, index) ==
  LET chr      == text[1]
      name     == get(index, chr)
      block    == find_unicode_block(chr)
      in_block == collect(SelectSeq(index,
                    LAMBDA e : /\ e.chr >= Unwrap(block).start
                               /\ e.chr <= Unwrap(block).end))
      code     == code_search(text, index)
  IN IF IsSome(code) THEN code
     ELSE IF Len(text) = 1 /\ ~is_alphabetic(chr)
       THEN IF IsSome(name) THEN Some(single_char_result(chr, Unwrap(name)))
            ELSE IF IsSome(block) /\ in_block # << >> THEN Some(in_block)
            ELSE None
     ELSE None

\* A faulty search_special_patterns, which looks a single letter up like any
\* other single character.
search_special_patterns_with_letters(text, index) ==
  LET chr      == text[1]
      name     == get(index, chr)
      block    == find_unicode_block(chr)
      in_block == collect(SelectSeq(index,
                    LAMBDA e : /\ e.chr >= Unwrap(block).start
                               /\ e.chr <= Unwrap(block).end))
  IN IF Len(text) = 1
       THEN IF IsSome(name) THEN Some(single_char_result(chr, Unwrap(name)))
            ELSE IF IsSome(block) /\ in_block # << >> THEN Some(in_block)
            ELSE code_search(text, index)
       ELSE code_search(text, index)

\* A faulty search_special_patterns, which has no answer from the Unicode
\* block of a single character that is not in the index.
search_special_patterns_without_block(text, index) ==
  LET chr  == text[1]
      name == get(index, chr)
  IN IF Len(text) = 1
       THEN IF is_alphabetic(chr) THEN None
            ELSE IF IsSome(name) THEN Some(single_char_result(chr, Unwrap(name)))
            ELSE code_search(text, index)
       ELSE code_search(text, index)

\* SearchEngine::search_special_patterns.
search_special_patterns(text, index) ==
  LET chr      == text[1]
      name     == get(index, chr)
      block    == find_unicode_block(chr)
      in_block == collect(SelectSeq(index,
                    LAMBDA e : /\ e.chr >= Unwrap(block).start
                               /\ e.chr <= Unwrap(block).end))
  IN IF Len(text) = 1
       THEN IF is_alphabetic(chr) THEN None
            ELSE IF IsSome(name) THEN Some(single_char_result(chr, Unwrap(name)))
            ELSE IF IsSome(block) /\ in_block # << >> THEN Some(in_block)
            ELSE code_search(text, index)
       ELSE code_search(text, index)

\* A faulty filter_by_categories, which keeps every entry.
filter_by_categories_keeping_all(cache, cats, selected_id) == cache

\* A faulty filter_by_categories, which returns nothing when the selected
\* id names no category.
filter_by_categories_empty_when_unselected(cache, cats, selected_id) ==
  LET found == { i \in DOMAIN cats : id(cats[i]) = selected_id }
      category == cats[CHOOSE i \in found : \A j \in found : i <= j]
  IN IF found # {}
       THEN collect(SelectSeq(cache,
              LAMBDA e : category_contains(category.unicode_category, e.chr)))
       ELSE << >>

\* A faulty filter_by_categories, which takes the last category of the list
\* that has the selected id.
filter_by_categories_last_match(cache, cats, selected_id) ==
  LET found == { i \in DOMAIN cats : id(cats[i]) = selected_id }
      category == cats[CHOOSE i \in found : \A j \in found : i >= j]
  IN IF found # {}
       THEN collect(SelectSeq(cache,
              LAMBDA e : category_contains(category.unicode_category, e.chr)))
       ELSE cache

\* SearchEngine::filter_by_categories.
filter_by_categories(cache, cats, selected_id) ==
  LET found == { i \in DOMAIN cats : id(cats[i]) = selected_id }
      category == cats[CHOOSE i \in found : \A j \in found : i <= j]
  IN IF found # {}
       THEN collect(SelectSeq(cache,
              LAMBDA e : category_contains(category.unicode_category, e.chr)))
       ELSE cache

MAX_EDIT_DISTANCE == 2

\* A faulty word_matches, which never consults the edit distance.
word_matches_exactly(word, term, match_case) ==
  word = term \/ starts_with(word, term)

\* A faulty closure, which matches a long word to a term by their distance
\* alone, also when case_sensitive.
word_matches_by_distance(word, term, match_case) ==
  IF str_len(word) < 3 \/ str_len(term) < 3
    THEN word = term \/ starts_with(word, term)
    ELSE sz_edit_distance(word, term) <= MAX_EDIT_DISTANCE

\* The closure of fuzzy_search that matches one word of a name to a term.
word_matches(word, term, match_case) ==
  IF str_len(word) < 3 \/ str_len(term) < 3
    THEN word = term \/ starts_with(word, term)
    ELSE LET distance == sz_edit_distance(word, term)
         IN IF match_case /\ distance > 0
              THEN IF to_lowercase(word) = to_lowercase(term)
                     THEN FALSE
                     ELSE distance <= MAX_EDIT_DISTANCE
              ELSE distance <= MAX_EDIT_DISTANCE

\* A faulty filter closure of fuzzy_search, which is content with one term
\* that matches.
fuzzy_matches_any_term(e, prm) ==
  LET chr_str == << e.chr >>
      searched == IF prm.case_sensitive THEN e.name ELSE to_lowercase(e.name)
      search_terms == IF prm.case_sensitive THEN prm.split_text
                                               ELSE prm.split_text_lower
      words == split_whitespace(searched)
  IN \/ IF prm.case_sensitive
          THEN contains(chr_str, prm.text)
          ELSE contains(to_lowercase(chr_str), to_lowercase(prm.text))
     \/ \E t \in DOMAIN search_terms :
          \/ contains(searched, search_terms[t])
          \/ \E w \in DOMAIN words :
               word_matches(words[w], search_terms[t], prm.case_sensitive)

\* The filter closure of fuzzy_search.
fuzzy_matches(e, prm) ==
  LET chr_str == << e.chr >>
      searched == IF prm.case_sensitive THEN e.name ELSE to_lowercase(e.name)
      search_terms == IF prm.case_sensitive THEN prm.split_text
                                               ELSE prm.split_text_lower
      words == split_whitespace(searched)
  IN \/ IF prm.case_sensitive
          THEN contains(chr_str, prm.text)
          ELSE contains(to_lowercase(chr_str), to_lowercase(prm.text))
     \/ \A t \in DOMAIN search_terms :
          \/ contains(searched, search_terms[t])
          \/ \E w \in DOMAIN words :
               word_matches(words[w], search_terms[t], prm.case_sensitive)

\* A faulty fuzzy_search, which returns the names as it compared them (in
\* lower case unless case_sensitive).
fuzzy_search_returning_compared_names(cache, prm) ==
  LET kept == SelectSeq(cache, LAMBDA e : fuzzy_matches(e, prm))
  IN collect([i \in 1..Len(kept) |->
                [chr |-> kept[i].chr,
                 name |-> IF prm.case_sensitive THEN kept[i].name
                                                ELSE to_lowercase(kept[i].name)]])

\* SearchEngine::fuzzy_search.
fuzzy_search(cache, prm) ==
  collect(SelectSeq(cache, LAMBDA e : fuzzy_matches(e, prm)))

\* A faulty filter closure of skeleton_search, which always folds case.
skeleton_matches_ignoring_case(e, prm) ==
  \/ contains(to_lowercase(<< e.chr >>), to_lowercase(prm.text))
  \/ prm.search_name /\ contains(to_lowercase(e.name), to_lowercase(prm.text))

\* A faulty filter closure of skeleton_search, which without case_sensitive
\* lowers the character and the name and not the text.
skeleton_matches_lowering_one_side(e, prm) ==
  LET chr_str == << e.chr >>
      char_matches ==
        IF prm.case_sensitive
          THEN contains(chr_str, prm.text)
          ELSE contains(to_lowercase(chr_str), prm.text)
      name_matches ==
        IF prm.search_name
          THEN IF prm.case_sensitive
                 THEN contains(e.name, prm.text)
                 ELSE contains(to_lowercase(e.name), prm.text)
          ELSE FALSE
  IN char_matches \/ name_matches

\* The filter closure of skeleton_search.
skeleton_matches(e, prm) ==
  LET chr_str == << e.chr >>
      char_matches ==
        IF prm.case_sensitive
          THEN contains(chr_str, prm.text)
          ELSE contains(to_lowercase(chr_str), to_lowercase(prm.text))
      name_matches ==
        IF prm.search_name
          THEN IF prm.case_sensitive
                 THEN contains(e.name, prm.text)
                 ELSE contains(to_lowercase(e.name), to_lowercase(prm.text))
          ELSE FALSE
  IN char_matches \/ name_matches

\* A faulty skeleton_search, which filters also when the text has no terms.
skeleton_search_without_terms_check(cache, prm) ==
  collect(SelectSeq(cache, LAMBDA e : skeleton_matches(e, prm)))

\* SearchEngine::skeleton_search.
skeleton_search(cache, prm) ==
  IF prm.split_text = << >> THEN cache
  ELSE collect(SelectSeq(cache, LAMBDA e : skeleton_matches(e, prm)))

\* SearchEngine::apply_search_filters.
apply_search_filters(cache, prm) ==
  IF prm.search_name /\ prm.split_text # << >>
    THEN fuzzy_search(cache, prm)
    ELSE skeleton_search(cache, prm)

\* A faulty search, which lacks the early return for an empty text.
search_without_empty_check(prm, index, cats, selected_id) ==
  LET special == search_special_patterns(prm.text, index)
      base_cache ==
        IF prm.search_only_categories
          THEN filter_by_categories(index, cats, selected_id)
          ELSE index
  IN IF IsSome(special) THEN Unwrap(special)
     ELSE apply_search_filters(base_cache, prm)

\* A faulty search, which restricts the index to the selected category
\* before it looks for the special patterns.
search_filtering_first(prm, index, cats, selected_id) ==
  LET base_cache ==
        IF prm.search_only_categories
          THEN filter_by_categories(index, cats, selected_id)
          ELSE index
      special == search_special_patterns(prm.text, base_cache)
  IN IF prm.text = << >> THEN index
     ELSE IF IsSome(special) THEN Unwrap(special)
     ELSE apply_search_filters(base_cache, prm)

\* A faulty search, which filters the whole index whether or not
\* search_only_categories is set.
search_ignoring_categories(prm, index, cats, selected_id) ==
  LET special == search_special_patterns(prm.text, index)
  IN IF prm.text = << >> THEN index
     ELSE IF IsSome(special) THEN Unwrap(special)
     ELSE apply_search_filters(index, prm)

\* SearchEngine::search.
search(prm, index, cats, selected_id) ==
  LET special == search_special_patterns(prm.text, index)
      base_cache ==
        IF prm.search_only_categories
          THEN filter_by_categories(index, cats, selected_id)
          ELSE index
  IN IF prm.text = << >> THEN index
     ELSE IF IsSome(special) THEN Unwrap(special)
     ELSE apply_search_filters(base_cache, prm)


(***************************************************************************)
(* The inputs of the search engine.                                        *)
(***************************************************************************)

\* A String of the character names: words joined by single spaces.
Words(ws) ==
  Concat([i \in 1..Len(ws) |-> IF i = 1 THEN ws[i] ELSE << 32 >> \o ws[i]])

Latin   == Str(<< "L", "a", "t", "i", "n" >>)
Greek   == Str(<< "G", "r", "e", "e", "k" >>)
Capital == Str(<< "C", "a", "p", "i", "t", "a", "l" >>)
Small   == Str(<< "S", "m", "a", "l", "l" >>)
Letter  == Str(<< "L", "e", "t", "t", "e", "r" >>)
Alpha   == Str(<< "A", "l", "p", "h", "a" >>)
Hyphen  == Str(<< "H", "y", "p", "h", "e", "n" >>)
Minus   == Str(<< "M", "i", "n", "u", "s" >>)
Soft    == Str(<< "S", "o", "f", "t" >>)
Plus    == Str(<< "P", "l", "u", "s" >>)
Sign    == Str(<< "S", "i", "g", "n" >>)
Digit   == Str(<< "D", "i", "g", "i", "t" >>)
One     == Str(<< "O", "n", "e" >>)
Grinning == Str(<< "G", "r", "i", "n", "n", "i", "n", "g" >>)
Face    == Str(<< "F", "a", "c", "e" >>)

\* An index in the style of create_test_cache (src/src/search.rs, tests),
\* with the letter e added: entries in ascending code point order.
TestCache ==
  << [chr |-> 43,     name |-> Words(<< Plus, Sign >>)],
     [chr |-> 45,     name |-> Words(<< Hyphen, Minus >>)],
     [chr |-> 49,     name |-> Words(<< Digit, One >>)],
     [chr |-> 65,     name |-> Words(<< Latin, Capital, Letter, Str(<< "A" >>) >>)],
     [chr |-> 97,     name |-> Words(<< Latin, Small, Letter, Str(<< "a" >>) >>)],
     [chr |-> 101,    name |-> Words(<< Latin, Small, Letter, Str(<< "e" >>) >>)],
     [chr |-> 173,    name |-> Words(<< Soft, Hyphen >>)],
     [chr |-> 913,    name |-> Words(<< Greek, Capital, Letter, Alpha >>)],
     [chr |-> 945,    name |-> Words(<< Greek, Small, Letter, Alpha >>)],
     [chr |-> 8208,   name |-> Hyphen],
     [chr |-> 128512, name |-> Words(<< Grinning, Face >>)] >>

\* The index without some of its code points.
Without(cache, chrs) == SelectSeq(cache, LAMBDA e : e.chr \notin chrs)

LineFeed == Str(<< "L", "i", "n", "e", " ", "F", "e", "e", "d" >>)

StartOfHeading ==
  Str(<< "S", "t", "a", "r", "t", " ", "O", "f", " ",
         "H", "e", "a", "d", "i", "n", "g" >>)

\* The indexes a search is run on: the full one, one without the letter e
\* and the digit 1 (as create_test_cache has it), and one without the
\* plus sign and the Greek capital but with the control characters U+0001
\* and U+000A, the code points that the digit 1 and the letter a denote.
Caches ==
  { TestCache,
    Without(TestCache, {49, 101}),
    insert(insert(Without(TestCache, {43, 913}),
                  [chr |-> 1, name |-> StartOfHeading]),
           [chr |-> 10, name |-> LineFeed]) }

\* The category lists a search is run with: categories of every classifier
\* variant with distinct names, and a list in which two categories share a
\* name.
CategoryLists ==
  { << Category("Uppercase Letters", PropertyCategory("UppercaseLetters")),
       Category("Latin", MultiBlockCategory(<< Block("Basic Latin"),
                                               Block("Latin-1 Supplement") >>)),
       Category("Greek and Coptic", BlockCategory(Block("Greek and Coptic"))) >>,
    << Category("Greek and Coptic", BlockCategory(Block("Greek and Coptic"))),
       Category("Greek and Coptic", CollectionCategory({65, 97, 128512})) >> }

\* src/src/ui.rs: the ids of the pseudo-categories.
recently_used_id == Id("Recently Used")
collection_id == Id("Collection")
search_id == Id("Search")

\* The ids a search is run with: those of the categories, those of the
\* pseudo-categories, and one of no category (the tests' Id::new("test")).
SelectedIds ==
  { Id(n) : n \in {"Uppercase Letters", "Latin", "Greek and Coptic", "test"} }
    \cup { recently_used_id, collection_id, search_id }

\* The characters short queries are made of: a, the space, 1 and A.
QueryChars == << 97, 32, 49, 65 >>

\* The longest query made of QueryChars, and how many of QueryChars are used.
MaxTextLen == 2
MaxQueryChars == 3

RECURSIVE StringsUpTo(_, _)
\* The Strings over an alphabet of length at most n.
StringsUpTo(alphabet, n) ==
  IF n = 0 THEN { << >> }
  ELSE LET shorter == StringsUpTo(alphabet, n - 1)
       IN shorter \cup { Append(s, c) : s \in shorter, c \in alphabet }

\* Queries in code point notation, names, misspelt names and others, among
\* them one of a tab, a space and a no-break space.
NamedQueries ==
  { Str(<< "U", "+", "0", "0", "4", "1" >>),
    Str(<< "u", "+", "4", "1" >>),
    Str(<< "0", "x", "4", "1" >>),
    Str(<< "0", "X", "3", "B", "1" >>),
    Str(<< " ", "U", "+", "2", "0", "1", "0" >>),
    Str(<< "6", "5" >>),
    Str(<< "4", "1" >>),
    Str(<< "9", "7" >>),
    Str(<< "1", "2", "8", "5", "1", "2" >>),
    Str(<< "1", "F", "6", "0", "0" >>),
    Str(<< "U", "+", "Z", "Z" >>),
    Str(<< "U", "+", "1", "1", "0", "0", "0", "0" >>),
    Str(<< "U", "+", "D", "8", "0", "0" >>),
    Str(<< "0", "x", "F", "F", "F", "F", "F", "F", "F", "F", "F" >>),
    Str(<< "U", "+", "0", "0", "4", "2" >>),
    Str(<< "3" >>),
    Str(<< "A" >>),
    << 9, 32, 160 >>,
    Str(<< "-" >>),
    Str(<< "+" >>),
    << 128512 >>,
    << 128513 >>,
    << 12255 >>,
    << 913 >>,
    << 304 >>,
    Str(<< "h", "y", "p", "h", "e", "n" >>),
    Str(<< "h", "y", "p", "e", "n" >>),
    Str(<< "h", "z", "p", "x", "n" >>),
    Str(<< "H", "Y", "P", "H", "E", "N" >>),
    Str(<< "G", "r", "e", "e", "k" >>),
    Str(<< "g", "r", "e", "e", "k" >>),
    Str(<< "l", "a", "t", "i", "n", " ", "l", "e", "t", "t", "e", "r" >>),
    Str(<< "a", "l", "p", "h", "a" >>),
    Str(<< "s", "m", "a", "l", "l" >>),
    Str(<< "f", "a", "c", "e" >>),
    Str(<< "h", "y" >>) \o << 254 >> \o Str(<< "h" >>) \o << 233 >> \o Str(<< "n" >>),
    Str(<< "s", "o" >>) \o << 8364, 8364 >> }

Queries ==
  NamedQueries
    \cup StringsUpTo({ QueryChars[i] : i \in 1..Min2(MaxQueryChars, Len(QueryChars)) },
                     MaxTextLen)

(***************************************************************************)
(* SearchSpec: one call of SearchEngine::search on inputs drawn from the   *)
(* sets above.                                                             *)
(***************************************************************************)
\* No category is being inspected, and no application runs.
NoInspector ==
  /\ inspector = None
  /\ inspected_char = 0
  /\ characters_result = None
  /\ contains_result = None

NoApp == app = None /\ popped = None

\* No search is being called.
NoSearch ==
  /\ params = None
  /\ full_cache = << >>
  /\ categories = << >>
  /\ selected_category_id = None
  /\ results = << >>
  /\ pc = "idle"

SearchInit ==
  /\ NoInspector
  /\ NoApp
  /\ \E text \in Queries, soc \in BOOLEAN, sn \in BOOLEAN, cs \in BOOLEAN :
       params = SearchParams_new(text, soc, sn, cs)
  /\ full_cache \in Caches
  /\ categories \in CategoryLists
  /\ selected_category_id \in SelectedIds
  /\ results = << >>
  /\ pc = "ready"

\* let results = SearchEngine::search(&params, &cache, &categories, id).
DoSearch ==
  /\ pc = "ready"
  /\ results' = search(params, full_cache, categories, selected_category_id)
  /\ pc' = "done"
  /\ UNCHANGED << params, full_cache, categories, selected_category_id >>
  /\ UNCHANGED << inspectorVars, appVars >>

SearchNext == DoSearch

SearchSpec == SearchInit /\ [][SearchNext]_vars


(***************************************************************************)
(* Properties of SearchEngine::search.                                     *)
(***************************************************************************)

\* C1: every (code point, name) entry that search returns is an entry of
\* the full index with the same name, and the result iterates in ascending
\* code point order.
C1_ResultWithinIndexInOrder ==
  pc = "done" =>
    /\ \A i \in DOMAIN results : \E j \in DOMAIN full_cache : full_cache[j] = results[i]
    /\ \A i, j \in DOMAIN results : i < j => results[i].chr < results[j].chr

\* A search for a non-empty text that returned several entries, not all.
C1_Witness ==
  /\ pc = "done"
  /\ params.text # << >>
  /\ Len(results) >= 2
  /\ Len(results) < Len(full_cache)

\* C2: when the query text is empty, search returns exactly the full index,
\* whatever the flags, the category list and the selected id are.
C2_EmptyQueryIsIdentity ==
  (pc = "done" /\ params.text = << >>) => results = full_cache

\* The category of the list that the selected id names, if any: the
\* first one in list order.
SelectedCategory ==
  LET found == { i \in DOMAIN categories : categories[i].name = selected_category_id.id_of }
  IN IF found = {} THEN None
     ELSE Some(categories[CHOOSE i \in found : \A j \in found : i <= j])

\* The selected id names a category that leaves out part of the index.
SelectionExcludesPartOfIndex ==
  /\ IsSome(SelectedCategory)
  /\ \E i \in DOMAIN full_cache :
       ~category_contains(Unwrap(SelectedCategory).unicode_category, full_cache[i].chr)

\* An empty query answered while the search is restricted to a selected
\* category that does not hold the whole index.
C2_Witness ==
  /\ pc = "done"
  /\ params.text = << >>
  /\ params.search_only_categories
  /\ SelectionExcludesPartOfIndex
  /\ results # << >>

RECURSIVE HexValue(_)
\* The number a non-empty string of at most six hexadecimal digits denotes.
HexValue(digits) ==
  IF digits = << >> THEN 0
  ELSE 16 * HexValue(SubSeq(digits, 1, Len(digits) - 1))
         + to_digit(digits[Len(digits)], 16)

\* The text is U+<hex> or 0x<hex> (either case of the prefix), <hex> being
\* one to six hexadecimal digits.
IsPrefixedHex(text) ==
  /\ Len(text) \in 3..8
  /\ << text[1], text[2] >> \in { Str(<< "U", "+" >>), Str(<< "u", "+" >>),
                                  Str(<< "0", "x" >>), Str(<< "0", "X" >>) }
  /\ \A i \in 3..Len(text) : is_ascii_hexdigit(text[i])

\* The code point such a text denotes.
PrefixedHexValue(text) == HexValue(SubSeq(text, 3, Len(text)))

\* The entry of the index for a code point.
EntryOf(chr) == CHOOSE e \in Range(full_cache) : e.chr = chr

InIndex(chr) == \E e \in Range(full_cache) : e.chr = chr

\* C3: for a query in U+<hex> or 0x<hex> notation whose code point is in
\* the index, search returns exactly the single entry for that code point,
\* regardless of search_only_categories, of the selected category and of
\* search_name and case_sensitive.
C3_PrefixedHexLookup ==
  (/\ pc = "done"
   /\ IsPrefixedHex(params.text)
   /\ InIndex(PrefixedHexValue(params.text)))
    => results = << EntryOf(PrefixedHexValue(params.text)) >>

\* A code point looked up by notation while the search is restricted to a
\* selected category that does not contain it, with search_name set.
C3_Witness ==
  /\ pc = "done"
  /\ IsPrefixedHex(params.text)
  /\ InIndex(PrefixedHexValue(params.text))
  /\ params.search_only_categories
  /\ params.search_name
  /\ IsSome(SelectedCategory)
  /\ ~category_contains(Unwrap(SelectedCategory).unicode_category,
                        PrefixedHexValue(params.text))
  /\ Len(results) = 1


\* C4: for every index that contains 'A' (U+0041), the queries "65",
\* "0x41" and "U+0041" all return the identical result, exactly the single
\* entry for 'A'.
C4_DecimalHexEquivalence ==
  (/\ pc = "done"
   /\ InIndex(65)
   /\ params.text \in { Str(<< "6", "5" >>), Str(<< "0", "x", "4", "1" >>),
                        Str(<< "U", "+", "0", "0", "4", "1" >>) })
    => results = << EntryOf(65) >>

\* The query is a single alphabetic character.
OneLetterQuery == Len(params.text) = 1 /\ is_alphabetic(params.text[1])

\* Two characters are equal ignoring case: their lower-case mappings agree.
EqualIgnoringCase(a, b) == char_to_lowercase(a) = char_to_lowercase(b)

InResults(e) == \E i \in DOMAIN results : results[i] = e

\* The case rule of C5 over a set of index entries: without case_sensitive
\* every entry equal to the query letter ignoring case is in the result;
\* with it the entry of the letter itself is, and no entry that differs
\* from the letter only by case.
CaseRuleOver(entries) ==
  LET q == params.text[1]
  IN IF ~params.case_sensitive
       THEN \A e \in entries : EqualIgnoringCase(e.chr, q) => InResults(e)
       ELSE /\ \A e \in entries : e.chr = q => InResults(e)
            /\ \A i \in DOMAIN results :
                 ~(results[i].chr # q /\ EqualIgnoringCase(results[i].chr, q))

\* C5 as claimed: for a one-letter query with search_name unset the case
\* rule holds over the whole index.
C5_AsClaimed ==
  (pc = "done" /\ OneLetterQuery /\ ~params.search_name)
    => CaseRuleOver(Range(full_cache))

\* The entries a free-text search filters: the index, or with
\* search_only_categories set and a category selected, the entries of the
\* index that the category contains.
Candidates ==
  IF params.search_only_categories /\ IsSome(SelectedCategory)
    THEN { e \in Range(full_cache) :
             category_contains(Unwrap(SelectedCategory).unicode_category, e.chr) }
    ELSE Range(full_cache)

\* C5, amended: for a one-letter query with search_name unset the case rule
\* holds over the candidate entries (the whole index unless
\* search_only_categories restricts the search to a selected category).
C5_CaseRuleOverCandidates ==
  (pc = "done" /\ OneLetterQuery /\ ~params.search_name)
    => CaseRuleOver(Candidates)

\* The query "a", case-insensitive and restricted to a selected category,
\* has returned both 'A' and 'a'.
C5_Witness ==
  /\ pc = "done"
  /\ params.text = Str(<< "a" >>)
  /\ ~params.search_name
  /\ ~params.case_sensitive
  /\ params.search_only_categories
  /\ IsSome(SelectedCategory)
  /\ \E i, j \in DOMAIN results : results[i].chr = 65 /\ results[j].chr = 97

\* The query reaches the name search: it is not empty, no special pattern
\* resolves it, search_name is set and it has at least one term.
InNameSearch ==
  /\ params.text # << >>
  /\ ~IsSome(search_special_patterns(params.text, full_cache))
  /\ params.search_name
  /\ params.split_text # << >>

\* The terms of the query and the words of a name, in lower case.
LowerTerms == Range(split_whitespace(to_lowercase(params.text)))
LowerWords(e) == Range(split_whitespace(to_lowercase(e.name)))

ByteDistance(w, t) == levenshtein(as_bytes(w), as_bytes(t))

\* The query text, in lower case, is the lower-case form of the entry's
\* own character (or a part of it).
QueryIsCharacterOf(e) ==
  contains(char_to_lowercase(e.chr), to_lowercase(params.text))

C7_CategoryRestriction ==
  (/\ pc = "done"
   /\ params.text # << >>
   /\ ~IsSome(search_special_patterns(params.text, full_cache))
   /\ params.search_only_categories
   /\ IsSome(SelectedCategory))
    => \A i \in DOMAIN results :
         category_contains(Unwrap(SelectedCategory).unicode_category, results[i].chr)

\* A name search restricted to a selected category has returned entries
\* and left out an entry outside the category whose name holds the query.
C7_Witness ==
  /\ pc = "done"
  /\ InNameSearch
  /\ params.search_only_categories
  /\ IsSome(SelectedCategory)
  /\ results # << >>
  /\ \E e \in Range(full_cache) :
       /\ contains(to_lowercase(e.name), to_lowercase(params.text))
       /\ ~category_contains(Unwrap(SelectedCategory).unicode_category, e.chr)
       /\ ~InResults(e)

\* The result of the same search with search_only_categories unset.
UnrestrictedResults ==
  search([params EXCEPT !.search_only_categories = FALSE],
         full_cache, categories, selected_category_id)

\* C11: with search_only_categories set and a selected id that names no
\* category of the list (an id of no category, or that of Search, Recently
\* Used or Collection), search returns what it returns with
\* search_only_categories unset.
C11_UnselectedFallsBackToIndex ==
  (pc = "done" /\ params.search_only_categories /\ ~IsSome(SelectedCategory))
    => results = UnrestrictedResults

\* A restricted name search with the id of a pseudo-category selected has
\* returned a part of the index.
C11_Witness ==
  /\ pc = "done"
  /\ params.search_only_categories
  /\ selected_category_id \in { recently_used_id, collection_id, search_id }
  /\ InNameSearch
  /\ results # << >>
  /\ Len(results) < Len(full_cache)

\* What the free-text filters return for the query: the filters applied to
\* the index, or with search_only_categories set to its part in the
\* selected category.
FreeTextResults ==
  apply_search_filters(
    IF params.search_only_categories
      THEN filter_by_categories(full_cache, categories, selected_category_id)
      ELSE full_cache,
    params)

\* The query as parse_hex_code reads it: trimmed, in lower case.
Cleaned == to_lowercase(trim(params.text))

HasCodePrefix(t) ==
  Len(t) >= 2 /\ << t[1], t[2] >> \in { Str(<< "u", "+" >>), Str(<< "0", "x" >>) }

AllHexDigits(t) == t # << >> /\ \A i \in DOMAIN t : is_ascii_hexdigit(t[i])

AllDecimalDigits(t) == t # << >> /\ \A i \in DOMAIN t : t[i] \in 48..57

\* A string of digits without its leading zeros.
WithoutLeadingZeros(t) ==
  IF \A i \in DOMAIN t : t[i] = 48 THEN << >>
  ELSE SubSeq(t, Min({ i \in DOMAIN t : t[i] # 48 }), Len(t))

RECURSIVE DecimalValue(_)
\* The number a string of at most seven decimal digits denotes.
DecimalValue(digits) ==
  IF digits = << >> THEN 0
  ELSE 10 * DecimalValue(SubSeq(digits, 1, Len(digits) - 1))
         + (digits[Len(digits)] - 48)

\* The code points that a string of digits denotes in a radix: none if a
\* char of it is not a digit or the number is above U+10FFFF or a surrogate.
CodePointsOf(digits, radix) ==
  LET significant == WithoutLeadingZeros(digits)
      value == IF radix = 16 THEN HexValue(significant)
                             ELSE DecimalValue(significant)
  IN IF radix = 16 /\ ~AllHexDigits(digits) THEN {}
     ELSE IF radix = 10 /\ ~AllDecimalDigits(digits) THEN {}
     ELSE IF Len(significant) > (IF radix = 16 THEN 6 ELSE 7) THEN {}
     ELSE IF value > 1114111 \/ value \in 55296..57343 THEN {}
     ELSE { value }

\* The query looks like code point notation: U+ or 0x and more, up to six
\* hexadecimal digits, or decimal digits.
LooksLikeCodePoint ==
  \/ HasCodePrefix(Cleaned)
  \/ AllHexDigits(Cleaned) /\ Len(Cleaned) <= 6
  \/ AllDecimalDigits(params.text)

\* The code points that the query denotes in any of the notations.
DenotedCodePoints ==
  (IF HasCodePrefix(Cleaned)
     THEN CodePointsOf(SubSeq(Cleaned, 3, Len(Cleaned)), 16) ELSE {})
  \cup (IF Len(Cleaned) <= 6 THEN CodePointsOf(Cleaned, 16) ELSE {})
  \cup CodePointsOf(params.text, 10)

\* The notation fails: it denotes no code point of the index.
NotationFails ==
  LooksLikeCodePoint /\ \A v \in DenotedCodePoints : ~InIndex(v)

Terms ==
  Range(split_whitespace(IF params.case_sensitive THEN params.text
                                                  ELSE to_lowercase(params.text)))

ComparedName(e) ==
  IF params.case_sensitive THEN e.name ELSE to_lowercase(e.name)

\* A word of a name fuzzy-matches a term: a word or term of fewer than 3
\* bytes must begin with the term; otherwise the two are within distance 2,
\* and with case_sensitive do not differ by case alone.
WordFuzzyMatches(w, t) ==
  IF str_len(w) < 3 \/ str_len(t) < 3
    THEN starts_with(w, t)
    ELSE /\ ByteDistance(w, t) <= 2
         /\ ~(params.case_sensitive /\ w # t /\ to_lowercase(w) = to_lowercase(t))

\* The name of an entry matches a term.
TermMatches(e, t) ==
  \/ contains(ComparedName(e), t)
  \/ \E w \in Range(split_whitespace(ComparedName(e))) : WordFuzzyMatches(w, t)

\* The query text is the entry's own character (or a part of it), compared
\* in lower case unless case_sensitive.
QueryIsOwnCharacter(e) ==
  IF params.case_sensitive
    THEN contains(<< e.chr >>, params.text)
    ELSE contains(char_to_lowercase(e.chr), to_lowercase(params.text))

\* C13 as claimed: in a name search a candidate entry is in the result
\* exactly when its name matches every term of the query, and nothing but
\* candidate entries is.
C13_AsClaimed ==
  (pc = "done" /\ InNameSearch) =>
    /\ \A i \in DOMAIN results : results[i] \in Candidates
    /\ \A e \in Candidates :
         InResults(e) <=> \A t \in Terms : TermMatches(e, t)

\* C13, amended: exactly when its name matches every term of the query or
\* the query text is the entry's own character.
C13_EveryTermMatches ==
  (pc = "done" /\ InNameSearch) =>
    /\ \A i \in DOMAIN results : results[i] \in Candidates
    /\ \A e \in Candidates :
         InResults(e) <=>
           ((\A t \in Terms : TermMatches(e, t)) \/ QueryIsOwnCharacter(e))

\* A name search for two terms has returned entries and left out an entry
\* whose name matches one term and not the other.
C13_Witness ==
  /\ pc = "done"
  /\ InNameSearch
  /\ Cardinality(Terms) >= 2
  /\ results # << >>
  /\ \E e \in Candidates :
       /\ ~InResults(e)
       /\ \E t \in Terms : TermMatches(e, t)
       /\ \E t \in Terms : ~TermMatches(e, t)


(***************************************************************************)
(* app.rs: GlyphanaApp. The fields that only style the window (fonts,      *)
(* glyph_scale, pixels_per_point, stay_on_top, show_prefs) are left out,   *)
(* and of the default categories the model keeps a Block and a MultiBlock. *)
(***************************************************************************)

\* char::to_uppercase: the upper-case mapping of one char.
char_to_uppercase(c) ==
  IF c \in 97..122 THEN << c - 32 >>
  ELSE IF c = 223 THEN << 83, 83 >>
  ELSE IF c \in 224..254 /\ c # 247 THEN << c - 32 >>
  ELSE IF c = 962 THEN << 931 >>
  ELSE IF c \in 945..971 THEN << c - 32 >>
  ELSE IF c \in 1377..1414 THEN << c - 48 >>
  ELSE << c >>

\* A mapping as unicode_case_mapping returns it, [u32; 3]: the code points
\* of the mapping, then zeros; all zeros for a char that maps to itself.
case_mapping(c, mapped) ==
  IF mapped = << c >> THEN << 0, 0, 0 >>
  ELSE [i \in 1..3 |-> IF i <= Len(mapped) THEN mapped[i] ELSE 0]

unicode_case_mapping_to_lowercase(c) == case_mapping(c, char_to_lowercase(c))
unicode_case_mapping_to_uppercase(c) == case_mapping(c, char_to_uppercase(c))

\* unicode_names2::name, for the chars of the model's font.
unicode_names2_name(chr) ==
  CASE chr = 65   -> Some(Str(<< "L", "A", "T", "I", "N", " ",
                                 "C", "A", "P", "I", "T", "A", "L", " ",
                                 "L", "E", "T", "T", "E", "R", " ", "A" >>))
    [] chr = 8364 -> Some(Str(<< "E", "U", "R", "O", " ", "S", "I", "G", "N" >>))
    [] OTHER      -> None

\* glyph_names::glyph_name, the Adobe glyph name of a code point.
glyph_name(code) ==
  CASE code = 65   -> Some(Str(<< "A" >>))
    [] code = 97   -> Some(Str(<< "a" >>))
    [] code = 8364 -> Some(Str(<< "E", "u", "r", "o" >>))
    [] OTHER       -> None

\* special_char_name: names for chars of the private use area and of other
\* ranges that the model's font has no glyphs in; U+FE4E7 is one of them.
special_char_name(chr) ==
  IF chr = 1041639 THEN Some(Str(<< "f", "l", "a", "g" >>)) ELSE None

\* char_name: the special name, else the Unicode name in lower case, else
\* "unknown".
char_name(chr) ==
  IF IsSome(special_char_name(chr)) THEN Unwrap(special_char_name(chr))
  ELSE IF IsSome(unicode_names2_name(chr))
    THEN to_lowercase(Unwrap(unicode_names2_name(chr)))
  ELSE Str(<< "u", "n", "k", "n", "o", "w", "n" >>)

\* The skeleton that unicode_skeleton gives a char: Greek capital and small
\* alpha look like Latin 'A' and 'a'.
skeleton(c) ==
  CASE c = 913 -> << 65 >>
    [] c = 945 -> << 97 >>
    [] OTHER   -> << c >>

\* unicode_skeleton::confusable, on two one-char strings.
confusable(a, b) == skeleton(a) = skeleton(b)

is_ascii_control(c) == c <= 31 \/ c = 127

\* The chars of the font: the space, 'A' and the euro sign.
FontCharacters == << 32, 65, 8364 >>

available_characters ==
  collect(LET shown == SelectSeq(FontCharacters, LAMBDA chr :
                         ~is_whitespace(chr) /\ ~is_ascii_control(chr))
          IN [i \in 1..Len(shown) |->
                [chr |-> shown[i], name |-> char_name(shown[i])]])

\* <UnicodeBlock as CharacterInspector>::contains, <UnicodeMultiBlock as
\* CharacterInspector>::contains, by enum_dispatch.
inspector_contains(category, c) ==
  CASE category.kind = "Block" ->
         category.block.start <= c /\ c <= category.block.end
    [] category.kind = "MultiBlock" ->
         \E i \in DOMAIN category.blocks :
           category.blocks[i].start <= c /\ c <= category.blocks[i].end

CAT_START == 3

\* The categories of GlyphanaApp::default, as (name, UnicodeCategory).
default_categories ==
  << << "Currency Symbols", BlockCategory(Block("Currency Symbols")) >>,
     << "Latin", MultiBlockCategory(<< Block("Basic Latin"),
                                       Block("Latin-1 Supplement"),
                                       Block("Latin Extended Additional"),
                                       Block("Latin Extended-A"),
                                       Block("Latin Extended-B"),
                                       Block("Latin Extended-C"),
                                       Block("Latin Extended-D"),
                                       Block("Latin Extended-E"),
                                       Block("Latin Extended-F"),
                                       Block("Latin Extended-G") >>) >> >>

\* <GlyphanaApp as Default>::default.
GlyphanaApp_default ==
  [ selected_char           |-> 0,
    search_only_categories  |-> FALSE,
    search_name             |-> FALSE,
    case_sensitive          |-> FALSE,
    recently_used           |-> << >>,
    recently_used_max_len   |-> 1000,
    collection              |-> {},
    selected_category       |-> 0,
    ui_search_text          |-> << >>,
    search_text             |-> << >>,
    split_search_text       |-> << >>,
    split_search_text_lower |-> << >>,
    categories              |-> default_categories,
    full_glyph_cache        |-> << >>,
    shown_glyph_cache       |-> << >> ]

\* str::split(' ') keeping the pieces that are not empty.
split_spaces(s) ==
  LET piece_starts == { i \in DOMAIN s : s[i] # 32 /\ (i = 1 \/ s[i - 1] = 32) }
      piece_end(i) == Min({ j \in i..Len(s) : j = Len(s) \/ s[j + 1] = 32 })
      nth_start(k) == CHOOSE i \in piece_starts :
                        Cardinality({ j \in piece_starts : j < i }) = k - 1
  IN [k \in 1..Cardinality(piece_starts) |->
        SubSeq(s, nth_start(k), piece_end(nth_start(k)))]

\* The filter closure of the search arm of
\* update_search_text_and_shown_glyph_cache.
search_filter(self, e) ==
  LET lower_case == unicode_case_mapping_to_lowercase(e.chr)
      chr == IF self.case_sensitive THEN e.chr
             ELSE IF lower_case[1] = 0 THEN e.chr ELSE lower_case[1]
  IN \/ /\ self.search_name
        /\ \E i \in DOMAIN self.split_search_text_lower :
             contains(e.name, self.split_search_text_lower[i])
     \/ ~self.search_name /\ contains(self.search_text, << chr >>)
     \/ \E i \in DOMAIN self.split_search_text_lower :
          /\ IsSome(glyph_name(chr))
          /\ contains(Unwrap(glyph_name(chr)), self.split_search_text_lower[i])
     \/ \E i \in DOMAIN self.search_text : confusable(chr, self.search_text[i])

\* The filter closure of its category arm.
category_filter(self, e) ==
  CASE self.selected_category = 0 ->
         \E i \in DOMAIN self.recently_used : self.recently_used[i] = e.chr
    [] self.selected_category = 1 -> e.chr \in self.collection
    [] OTHER ->
         inspector_contains(
           self.categories[self.selected_category - CAT_START + 1][2], e.chr)

\* GlyphanaApp::update_search_text_and_shown_glyph_cache.
update_search_text_and_shown_glyph_cache(self) ==
  IF self.selected_category = 2
    THEN LET searched ==
               [self EXCEPT
                  !.search_text = self.ui_search_text,
                  !.split_search_text = split_spaces(self.ui_search_text),
                  !.split_search_text_lower =
                     LET split == split_spaces(self.ui_search_text)
                     IN [i \in 1..Len(split) |-> to_lowercase(split[i])],
                  !.selected_category = 2]
         IN [searched EXCEPT !.shown_glyph_cache =
               collect(SelectSeq(self.full_glyph_cache,
                                 LAMBDA e : search_filter(searched, e)))]
    ELSE [self EXCEPT !.shown_glyph_cache =
            collect(SelectSeq(self.full_glyph_cache,
                              LAMBDA e : category_filter(self, e)))]

\* update, first part: the caches are filled on the first run.
fill_caches(self) ==
  IF self.full_glyph_cache = << >>
    THEN update_search_text_and_shown_glyph_cache(
           [self EXCEPT !.full_glyph_cache = available_characters])
    ELSE self

\* update, the File menu: "Clear Recently Used".
clear_recently_used(self, event) ==
  IF event.kind = "ClearRecentlyUsed"
    THEN [self EXCEPT !.recently_used = << >>]
    ELSE self

\* update, the cancel button of the search field.
cancel_search(self, event) ==
  IF event.kind = "Cancel"
    THEN update_search_text_and_shown_glyph_cache(
           [self EXCEPT !.ui_search_text = << >>])
    ELSE self

\* A faulty search field, whose edits leave the selection where it was.
edit_search_text_keeping_selection(self, event) ==
  IF event.kind = "EditSearchText" /\ event.text # self.ui_search_text
    THEN update_search_text_and_shown_glyph_cache(
           [self EXCEPT !.ui_search_text = event.text])
    ELSE self

\* update, the search field: an edit that changes its text.
edit_search_text(self, event) ==
  IF event.kind = "EditSearchText" /\ event.text # self.ui_search_text
    THEN update_search_text_and_shown_glyph_cache(
           [self EXCEPT !.ui_search_text = event.text,
                        !.selected_category = 2])
    ELSE self

\* update, the lower-casing of search_text of every frame.
lower_search_text(self) ==
  IF ~self.case_sensitive
    THEN [self EXCEPT !.search_text = to_lowercase(@)]
    ELSE self

\* A faulty "Match Case" toggle, whose tooltip selects the entry after the
\* last category.
toggle_case_sensitive_selecting_past_end(self, event) ==
  IF event.kind = "ToggleCaseSensitive"
    THEN [self EXCEPT
            !.case_sensitive = ~@,
            !.selected_category =
               IF event.tooltip THEN CAT_START + Len(self.categories) ELSE @]
  ELSE IF event.kind = "HoverCaseSensitive"
    THEN [self EXCEPT !.selected_category = CAT_START + Len(self.categories)]
  ELSE self

\* update, the "Match Case" toggle, whose tooltip selects the search.
toggle_case_sensitive(self, event) ==
  IF event.kind = "ToggleCaseSensitive"
    THEN [self EXCEPT
            !.case_sensitive = ~@,
            !.selected_category = IF event.tooltip THEN 2 ELSE @]
  ELSE IF event.kind = "HoverCaseSensitive"
    THEN [self EXCEPT !.selected_category = 2]
  ELSE self

\* update, the "Include Glyph Name in Search" toggle, enabled unless
\* case_sensitive.
toggle_search_name(self, event) ==
  IF event.kind = "ToggleSearchName" /\ ~self.case_sensitive
    THEN IF event.changed
           THEN update_search_text_and_shown_glyph_cache(
                  [self EXCEPT !.search_name = ~@, !.selected_category = 2])
           ELSE [self EXCEPT !.search_name = ~@]
    ELSE self

\* update, the top bar.
top_bar(self, event) ==
  toggle_search_name(
    toggle_case_sensitive(
      lower_search_text(
        edit_search_text(
          cancel_search(clear_recently_used(self, event), event), event)),
      event),
    event)

\* The indices that the entries of the categories panel select: Recently
\* Used, Collection, Search (enabled while the search field is not empty)
\* and the categories.
selectable(self) ==
  ({0, 1} \cup (IF self.ui_search_text # << >> THEN {2} ELSE {}))
    \cup { i - 1 + CAT_START : i \in DOMAIN self.categories }

\* A faulty categories panel, which selects the entry clicked and leaves the
\* shown glyphs as they were.
categories_panel_without_refresh(self, event) ==
  IF /\ event.kind = "SelectCategory"
     /\ event.index \in selectable(self)
     /\ event.index # self.selected_category
    THEN [self EXCEPT !.selected_category = event.index]
    ELSE self

\* update, the categories panel: selectable_value changes the selection to
\* the entry clicked unless it is selected already.
categories_panel(self, event) ==
  IF /\ event.kind = "SelectCategory"
     /\ event.index \in selectable(self)
     /\ event.index # self.selected_category
    THEN update_search_text_and_shown_glyph_cache(
           [self EXCEPT !.selected_category = event.index])
    ELSE self

is_letter_cased(c) == is_letter_uppercase(c) \/ is_letter_lowercase(c)

\* The other case of the selected char, as the "Flip Case" button takes it.
flipped_case(self) ==
  IF is_letter_uppercase(self.selected_char)
    THEN unicode_case_mapping_to_lowercase(self.selected_char)
    ELSE unicode_case_mapping_to_uppercase(self.selected_char)

\* update, the preview panel: "Flip Case" and "Collect".
character_preview(self, event) ==
  IF /\ event.kind = "FlipCase"
     /\ is_letter_cased(self.selected_char)
     /\ flipped_case(self)[1] # 0 /\ flipped_case(self)[2] = 0
    THEN [self EXCEPT !.selected_char =
            Unwrap(char_from_u32(as_u32(flipped_case(self)[1])))]
  ELSE IF event.kind = "Collect"
    THEN IF self.selected_char \in self.collection
           THEN [self EXCEPT !.collection = @ \ {self.selected_char}]
           ELSE [self EXCEPT !.collection = @ \cup {self.selected_char}]
  ELSE self

\* The chars of the glyph buttons.
glyph_buttons(self) ==
  { self.shown_glyph_cache[i].chr : i \in DOMAIN self.shown_glyph_cache }

\* What the click of a glyph button pops off recently_used: the front of
\* the list after push_back, if the list was at its maximum before.
popped_by_click(self, event) ==
  IF /\ event.kind = "ClickGlyph"
     /\ event.chr \in glyph_buttons(self)
     /\ self.recently_used_max_len <= Len(self.recently_used)
    THEN Some(Head(Append(self.recently_used, event.chr)))
    ELSE None

\* The central panel with the front popped only once the list is longer
\* than recently_used_max_len.
central_panel_popping_when_longer(self, event) ==
  IF event.kind = "ClickGlyph" /\ event.chr \in glyph_buttons(self)
    THEN LET pushed == Append(self.recently_used, event.chr)
         IN [self EXCEPT
               !.selected_char = event.chr,
               !.recently_used =
                  IF self.recently_used_max_len < Len(self.recently_used)
                    THEN Tail(pushed)
                    ELSE pushed]
    ELSE self

\* update, the central panel: the click of a glyph button.
central_panel(self, event) ==
  IF event.kind = "ClickGlyph" /\ event.chr \in glyph_buttons(self)
    THEN LET pushed == Append(self.recently_used, event.chr)
         IN [self EXCEPT
               !.selected_char = event.chr,
               !.recently_used =
                  IF self.recently_used_max_len <= Len(self.recently_used)
                    THEN Tail(pushed)
                    ELSE pushed]
    ELSE self

\* The panels of update before the central one.
side_panels(self, event) ==
  character_preview(
    categories_panel(top_bar(fill_caches(self), event), event), event)

\* <GlyphanaApp as eframe::App>::update, for a frame with one input event.
update(self, event) == central_panel(side_panels(self, event), event)

\* GlyphanaApp::new on the state that save stored: the fields marked
\* serde(skip) are the default's.
new(storage) ==
  [GlyphanaApp_default EXCEPT
     !.selected_char          = storage.selected_char,
     !.search_only_categories = storage.search_only_categories,
     !.search_name            = storage.search_name,
     !.case_sensitive         = storage.case_sensitive,
     !.recently_used          = storage.recently_used,
     !.recently_used_max_len  = storage.recently_used_max_len,
     !.collection             = storage.collection,
     !.selected_category      = storage.selected_category,
     !.ui_search_text         = storage.ui_search_text]

(***************************************************************************)
(* Further properties of SearchEngine::search: the special patterns, the   *)
(* name search and the category restriction.                               *)
(***************************************************************************)

\* The query is one character, not alphabetic, of the index.
OneIndexedNonLetterQuery ==
  /\ Len(params.text) = 1
  /\ ~is_alphabetic(params.text[1])
  /\ InIndex(params.text[1])

\* C20: for a query of one character that is not alphabetic and is in the
\* index, search returns exactly the single entry for that character; for
\* a digit this is the entry of the digit, not that of the code point the
\* digit denotes in hexadecimal or decimal notation.
C20_LiteralCharacterFirst ==
  (pc = "done" /\ OneIndexedNonLetterQuery)
    => results = << EntryOf(params.text[1]) >>

\* A digit was searched for in an index that holds both the digit and the
\* code point it denotes, the search restricted to a selected category that
\* does not contain the digit; the entry of the digit was returned.
C20_Witness ==
  /\ pc = "done"
  /\ OneIndexedNonLetterQuery
  /\ \E c \in DenotedCodePoints : c # params.text[1] /\ InIndex(c)
  /\ params.search_only_categories
  /\ IsSome(SelectedCategory)
  /\ ~category_contains(Unwrap(SelectedCategory).unicode_category,
                        params.text[1])
  /\ results = << EntryOf(params.text[1]) >>

\* C21: a query of one alphabetic character gets what the free-text filters
\* return for it, over the index or, with search_only_categories set, over
\* the selected category: neither the entry looked up for the character
\* alone nor the code point a hex letter denotes.
C21_LetterIsFreeText ==
  (pc = "done" /\ OneLetterQuery) => results = FreeTextResults

\* A hex letter was searched for in an index that holds the code point the
\* letter denotes, restricted to a selected category; entries were found and
\* the denoted code point is not among them.
C21_Witness ==
  /\ pc = "done"
  /\ OneLetterQuery
  /\ \E c \in DenotedCodePoints :
       InIndex(c) /\ \A i \in DOMAIN results : results[i].chr # c
  /\ params.search_only_categories
  /\ IsSome(SelectedCategory)
  /\ Len(results) >= 2

\* The entries of the index whose code points lie in a Unicode block that
\* holds chr, in index order.
SameBlockEntries(chr) ==
  SelectSeq(full_cache,
            LAMBDA e : \E i \in DOMAIN UnicodeBlocks :
                         /\ chr \in UnicodeBlocks[i].start..UnicodeBlocks[i].end
                         /\ e.chr \in UnicodeBlocks[i].start..UnicodeBlocks[i].end)

\* The query is one character, not alphabetic and not of the index, whose
\* Unicode block holds entries of the index.
OneUnindexedNonLetterQuery ==
  /\ Len(params.text) = 1
  /\ ~is_alphabetic(params.text[1])
  /\ ~InIndex(params.text[1])
  /\ SameBlockEntries(params.text[1]) # << >>

\* C22: for a query of one character that is not alphabetic and not in the
\* index, search returns exactly the entries of the index in the Unicode
\* block of the character when there is one, whatever the flags and the
\* selected category are; a query of one letter is never answered so: its
\* result stays within the candidates of the search.
C22_BlockOfUnindexedCharacter ==
  pc = "done" =>
    /\ OneUnindexedNonLetterQuery => results = SameBlockEntries(params.text[1])
    /\ OneLetterQuery => \A i \in DOMAIN results : results[i] \in Candidates

\* A character that is not in the index was searched for by name and by
\* case, restricted to a selected category that does not contain every
\* entry of its block; several entries of the block were returned, one of
\* them not in the category.
C22_Witness ==
  /\ pc = "done"
  /\ OneUnindexedNonLetterQuery
  /\ params.search_only_categories
  /\ params.search_name
  /\ params.case_sensitive
  /\ IsSome(SelectedCategory)
  /\ Len(results) >= 2
  /\ \E i \in DOMAIN results : results[i] \notin Candidates

\* A word and a term of 3 characters or more that are equal ignoring case
\* and not equal.
CaseOnlyPair(w, t) ==
  /\ Len(w) >= 3
  /\ Len(t) >= 3
  /\ w # t
  /\ to_lowercase(w) = to_lowercase(t)

NameWords(e) == Range(split_whitespace(e.name))

\* A term is related to the name of an entry by a difference of case only:
\* a word of the name makes a CaseOnlyPair with it, the name does not
\* contain it, and no other word of the name begins with it or is within
\* distance 2 of it.
OnlyCaseRelates(e, t) ==
  /\ \E w \in NameWords(e) : CaseOnlyPair(w, t)
  /\ ~contains(e.name, t)
  /\ \A w \in NameWords(e) :
       ~CaseOnlyPair(w, t)
         => /\ ~starts_with(w, t)
            /\ ByteDistance(w, t) > 2

\* C23: in a case-sensitive name search a word of a name and a term, each
\* of 3 characters or more, that are equal ignoring case and not equal do
\* not match, whatever their edit distance is, and an entry whose name a
\* term of the query is related to by a difference of case only is not in
\* the result.
C23_CaseDifferenceIsNoMatch ==
  (pc = "done" /\ InNameSearch /\ params.case_sensitive) =>
    \A e \in Range(full_cache) : \A t \in Range(params.split_text) :
      /\ \A w \in NameWords(e) :
           CaseOnlyPair(w, t) => ~word_matches(w, t, params.case_sensitive)
      /\ OnlyCaseRelates(e, t) => ~InResults(e)

\* The search of the query with case_sensitive unset, all else the same.
CaseInsensitiveResults ==
  search(SearchParams_new(params.text, params.search_only_categories,
                          params.search_name, FALSE),
         full_cache, categories, selected_category_id)

\* A case-sensitive name search has left out a candidate entry whose name
\* has a word at distance 1 or 2 of a term that differs from it by case
\* only; the search that ignores case returns the entry.
C23_Witness ==
  /\ pc = "done"
  /\ InNameSearch
  /\ params.case_sensitive
  /\ \E e \in Candidates : \E t \in Range(params.split_text) :
       /\ OnlyCaseRelates(e, t)
       /\ \E w \in NameWords(e) : CaseOnlyPair(w, t) /\ ByteDistance(w, t) <= 2
       /\ ~InResults(e)
       /\ \E i \in DOMAIN CaseInsensitiveResults : CaseInsensitiveResults[i] = e

\* The query is a bare string of two to six hexadecimal digits.
BareHexQuery ==
  /\ Len(params.text) \in 2..6
  /\ AllHexDigits(params.text)

\* The code points of the index that the query denotes as a hexadecimal and
\* as a decimal number.
HexReading == { c \in CodePointsOf(to_lowercase(params.text), 16) : InIndex(c) }
DecimalReading == { c \in CodePointsOf(params.text, 10) : InIndex(c) }

\* C24: for a bare string of two to six hexadecimal digits that denotes, as
\* a hexadecimal number, a code point of the index, search returns exactly
\* the single entry for that code point; when it does not and the string,
\* all decimal digits, denotes as a decimal number a code point of the
\* index, search returns the single entry for that one.
C24_HexadecimalReadingFirst ==
  (pc = "done" /\ BareHexQuery) =>
    /\ \A c \in HexReading : results = << EntryOf(c) >>
    /\ HexReading = {} => \A c \in DecimalReading : results = << EntryOf(c) >>

\* A string of decimal digits that denotes one code point of the index as
\* a hexadecimal number and another as a decimal number was searched for;
\* the entry of the first was returned.
C24_Witness ==
  /\ pc = "done"
  /\ BareHexQuery
  /\ \E c \in HexReading : \E d \in DecimalReading :
       c # d /\ results = << EntryOf(c) >>

\* The positions in the category list of the categories whose id is the
\* selected one.
WithSelectedId == { i \in DOMAIN categories : id(categories[i]) = selected_category_id }

\* The entries of the index that the category at a position contains.
MembersOf(i) ==
  SelectSeq(full_cache,
            LAMBDA e : category_contains(categories[i].unicode_category, e.chr))

\* The query is free text: not empty and resolved by no special pattern.
FreeTextQuery ==
  /\ params.text # << >>
  /\ ~IsSome(search_special_patterns(params.text, full_cache))

\* C26: the id of a category is a function of its name, so that categories
\* of one name have one id whatever their classifiers are, and a free-text
\* search restricted to a selected id filters the members of the first
\* category of the list that has the id, not those of a later one.
C26_FirstCategoryOfTheName ==
  pc = "done" =>
    /\ \A i, j \in DOMAIN categories :
         categories[i].name = categories[j].name
           => id(categories[i]) = id(categories[j])
    /\ (FreeTextQuery /\ params.search_only_categories /\ WithSelectedId # {})
         => \A i \in WithSelectedId :
              (\A j \in WithSelectedId : i <= j)
                => results = apply_search_filters(MembersOf(i), params)

\* A free-text search restricted to an id that two categories with
\* different classifiers have has returned an entry that the later one
\* does not contain.
C26_Witness ==
  /\ pc = "done"
  /\ FreeTextQuery
  /\ params.search_only_categories
  /\ \E i, j \in WithSelectedId :
       /\ i < j
       /\ categories[i].name = categories[j].name
       /\ categories[i].unicode_category # categories[j].unicode_category
       /\ \E k \in DOMAIN results :
            ~category_contains(categories[j].unicode_category, results[k].chr)

IsAscii(s) == \A i \in DOMAIN s : s[i] < 128

\* The query and the names of the index are ASCII.
AsciiSearch ==
  /\ IsAscii(params.text)
  /\ \A e \in Range(full_cache) : IsAscii(e.name)

\* C27: with an ASCII query and ASCII names, every entry that search
\* returns with case_sensitive set is returned by the same search with
\* case_sensitive unset.
C27_CaseSensitiveIsSubset ==
  (pc = "done" /\ params.case_sensitive /\ AsciiSearch) =>
    \A i \in DOMAIN results :
      \E j \in DOMAIN CaseInsensitiveResults : CaseInsensitiveResults[j] = results[i]

\* A free-text search with case_sensitive set has returned entries, fewer
\* than the same search with case_sensitive unset.
C27_Witness ==
  /\ pc = "done"
  /\ params.case_sensitive
  /\ AsciiSearch
  /\ FreeTextQuery
  /\ results # << >>
  /\ Len(results) < Len(CaseInsensitiveResults)

\* The entries of the unrestricted result that the selected category
\* contains.
UnrestrictedResultsInCategory ==
  SelectSeq(UnrestrictedResults,
            LAMBDA e : category_contains(Unwrap(SelectedCategory).unicode_category,
                                         e.chr))

\* C28 as claimed: for a query that no special pattern resolves, the result
\* with search_only_categories set and a category selected is exactly the
\* entries of the unrestricted result that the category contains.
C28_AsClaimed ==
  (/\ pc = "done"
   /\ ~IsSome(search_special_patterns(params.text, full_cache))
   /\ params.search_only_categories
   /\ IsSome(SelectedCategory))
    => results = UnrestrictedResultsInCategory

\* C28, amended: the same for a query that is not empty.
C28_FiltersCommute ==
  (/\ pc = "done"
   /\ FreeTextQuery
   /\ params.search_only_categories
   /\ IsSome(SelectedCategory))
    => results = UnrestrictedResultsInCategory

\* A free-text search restricted to a selected category has returned
\* entries, fewer than the unrestricted search.
C28_Witness ==
  /\ pc = "done"
  /\ FreeTextQuery
  /\ params.search_only_categories
  /\ IsSome(SelectedCategory)
  /\ results # << >>
  /\ Len(results) < Len(UnrestrictedResults)

\* The query is two or more characters, all of them whitespace.
WhitespaceQuery ==
  /\ Len(params.text) >= 2
  /\ \A i \in DOMAIN params.text : is_whitespace(params.text[i])

\* The candidates of the search in index order: the members of the selected
\* category when search_only_categories is set and a category is selected,
\* else the index.
CandidateEntries == SelectSeq(full_cache, LAMBDA e : e \in Candidates)

\* C29: a query of two or more characters, all whitespace, has no terms,
\* and search returns for it every candidate entry: the index, or with
\* search_only_categories set the members of the selected category,
\* whatever search_name and case_sensitive are.
C29_WhitespaceKeepsCandidates ==
  (pc = "done" /\ WhitespaceQuery) =>
    /\ params.text # << >>
    /\ params.split_text = << >>
    /\ results = CandidateEntries

\* A query of whitespace was searched for by name and by case, restricted
\* to a selected category; the members of the category were returned, which
\* are not the whole index.
C29_Witness ==
  /\ pc = "done"
  /\ WhitespaceQuery
  /\ params.search_name
  /\ params.case_sensitive
  /\ params.search_only_categories
  /\ IsSome(SelectedCategory)
  /\ results # << >>
  /\ Len(results) < Len(full_cache)

(***************************************************************************)
(* Properties of the search without names, SearchEngine::skeleton_search.  *)
(***************************************************************************)

\* The query reaches the search without names: it is not empty, no special
\* pattern resolves it, and search_name is unset.
InTextSearch ==
  /\ params.text # << >>
  /\ ~IsSome(search_special_patterns(params.text, full_cache))
  /\ ~params.search_name

\* The character of an entry as the search compares it: in lower case
\* unless case_sensitive.
NormalizedChar(e) ==
  IF params.case_sensitive THEN << e.chr >> ELSE char_to_lowercase(e.chr)

\* The character of an entry occurs in the query string.
OccursInQuery(e) ==
  contains(IF params.case_sensitive THEN params.text
                                    ELSE to_lowercase(params.text),
           NormalizedChar(e))

\* C14: in a search without names a candidate entry whose character, in
\* lower case unless case_sensitive, occurs anywhere in the query string is
\* in the result, so that a query of several characters returns every
\* candidate whose character occurs in it.
C14_QueryCharactersAreReturned ==
  (pc = "done" /\ InTextSearch) =>
    \A e \in Candidates : OccursInQuery(e) => InResults(e)

\* The character of an entry is confusable with a character of the query.
ConfusableWithQuery(e) ==
  \E i \in DOMAIN params.text, j \in DOMAIN NormalizedChar(e) :
    confusable(NormalizedChar(e)[j], params.text[i])

\* C15: in a search without names a candidate entry whose character is
\* confusable with a character of the query string is in the result, also
\* when the character itself does not occur in the query.
C15_ConfusablesAreReturned ==
  (pc = "done" /\ InTextSearch) =>
    \A e \in Candidates : ConfusableWithQuery(e) => InResults(e)

(***************************************************************************)
(* Spec: the application from its start, one call of update per step, each *)
(* with at most one input event, and restarts from the saved state.        *)
(***************************************************************************)

\* The largest recently_used_max_len a saved state holds.
MaxRecentlyUsedMaxLen == 2

\* The texts that an edit leaves in the search field: none and "a".
SearchTexts == { << >>, Str(<< "a" >>) }

Init ==
  /\ NoSearch
  /\ NoInspector
  /\ \E n \in 1..MaxRecentlyUsedMaxLen :
       app = new([GlyphanaApp_default EXCEPT !.recently_used_max_len = n])
  /\ popped = None

\* Each action but Restart is one call of update, for a frame with the
\* input it names.

\* A frame without input.
Repaint ==
  /\ app' = update(app, [kind |-> "None"])
  /\ popped' = None
  /\ UNCHANGED << searchVars, inspectorVars >>

ClearRecentlyUsed ==
  /\ app' = update(app, [kind |-> "ClearRecentlyUsed"])
  /\ popped' = None
  /\ UNCHANGED << searchVars, inspectorVars >>

Cancel ==
  /\ app' = update(app, [kind |-> "Cancel"])
  /\ popped' = None
  /\ UNCHANGED << searchVars, inspectorVars >>

\* An edit of the search field that leaves text in it.
EditSearchTextTo(text) ==
  /\ app' = update(app, [kind |-> "EditSearchText", text |-> text])
  /\ popped' = None
  /\ UNCHANGED << searchVars, inspectorVars >>

EditSearchText == \E text \in SearchTexts : EditSearchTextTo(text)

\* The click of "Match Case", with or without its tooltip showing.
ToggleCaseSensitive ==
  \E tooltip \in BOOLEAN :
    /\ app' = update(app, [kind |-> "ToggleCaseSensitive", tooltip |-> tooltip])
    /\ popped' = None
    /\ UNCHANGED << searchVars, inspectorVars >>

\* The pointer rests on "Match Case" and its tooltip shows.
HoverCaseSensitive ==
  /\ app' = update(app, [kind |-> "HoverCaseSensitive"])
  /\ popped' = None
  /\ UNCHANGED << searchVars, inspectorVars >>

\* The click of "Include Glyph Name in Search"; the code asks the response
\* of the Ui around the toggle whether it changed, which is egui's to
\* answer: both answers.
ToggleSearchName ==
  \E changed \in BOOLEAN :
    /\ app' = update(app, [kind |-> "ToggleSearchName", changed |-> changed])
    /\ popped' = None
    /\ UNCHANGED << searchVars, inspectorVars >>

SelectCategory ==
  \E index \in 0..(CAT_START + Len(default_categories) - 1) :
    /\ app' = update(app, [kind |-> "SelectCategory", index |-> index])
    /\ popped' = None
    /\ UNCHANGED << searchVars, inspectorVars >>

FlipCase ==
  /\ app' = update(app, [kind |-> "FlipCase"])
  /\ popped' = None
  /\ UNCHANGED << searchVars, inspectorVars >>

Collect ==
  /\ app' = update(app, [kind |-> "Collect"])
  /\ popped' = None
  /\ UNCHANGED << searchVars, inspectorVars >>

\* The click of the button of a glyph that the frame shows.
ClickGlyphOf(chr) ==
  LET event == [kind |-> "ClickGlyph", chr |-> chr]
  IN /\ chr \in glyph_buttons(side_panels(app, event))
     /\ app' = update(app, event)
     /\ popped' = popped_by_click(side_panels(app, event), event)
     /\ UNCHANGED << searchVars, inspectorVars >>

ClickGlyph == \E chr \in Range(FontCharacters) : ClickGlyphOf(chr)

\* The application is closed, which saves its state, and started again.
Restart ==
  /\ app' = new(app)
  /\ popped' = None
  /\ UNCHANGED << searchVars, inspectorVars >>

Next ==
  \/ Repaint
  \/ ClearRecentlyUsed
  \/ Cancel
  \/ EditSearchText
  \/ ToggleCaseSensitive
  \/ HoverCaseSensitive
  \/ ToggleSearchName
  \/ SelectCategory
  \/ FlipCase
  \/ Collect
  \/ ClickGlyph
  \/ Restart

Spec == Init /\ [][Next]_vars

\* C8: from an empty recently_used with recently_used_max_len N >= 1, after
\* any clicks of glyph buttons the list holds at most N entries, and a click
\* made while it holds N entries pops exactly its front, the oldest entry:
\* the list becomes its tail with the clicked char pushed at the back.
C8_RecentlyUsedBounded ==
  [][/\ Len(app.recently_used) <= app.recently_used_max_len
     /\ Len(app'.recently_used) <= app'.recently_used_max_len
     /\ \A chr \in Range(FontCharacters) :
          (ClickGlyphOf(chr)
             /\ Len(app.recently_used) = app.recently_used_max_len)
            => /\ app'.recently_used = Append(Tail(app.recently_used), chr)
               /\ popped' = Some(Head(app.recently_used))]_vars

\* A click on a full list of two has popped an entry that differs from the
\* one now oldest.
C8_Witness ==
  /\ IsSome(popped)
  /\ app.recently_used_max_len >= 2
  /\ Len(app.recently_used) = app.recently_used_max_len
  /\ Unwrap(popped) # Head(app.recently_used)

NoDuplicates(list) ==
  \A i, j \in DOMAIN list : list[i] = list[j] => i = j

\* C9: the click of a glyph that recently_used holds already moves it to
\* the back, the most recent position, and leaves the length of the list as
\* it was; the list never holds a char twice.
C9_ReselectionMovesToBack ==
  [][/\ NoDuplicates(app'.recently_used)
     /\ \A chr \in Range(FontCharacters) :
          (ClickGlyphOf(chr) /\ chr \in Range(app.recently_used))
            => /\ Len(app'.recently_used) = Len(app.recently_used)
               /\ app'.recently_used[Len(app'.recently_used)] = chr]_vars

\* The index of the Search entry of the categories panel.
SearchSelected == app.selected_category = 2

\* C16: an edit of the search field that changes its text and leaves it not
\* empty makes Search the selected entry, whichever entry was selected
\* before it.
C16_EditSelectsSearch ==
  [][\A text \in SearchTexts :
       (/\ text # << >>
        /\ text # app.ui_search_text
        /\ app'.ui_search_text = text
        /\ EditSearchTextTo(text))
         => app'.selected_category = 2]_vars

\* Search is selected over a text that an edit left, with glyphs found for
\* it, after the click of a glyph.
C16_Witness ==
  /\ SearchSelected
  /\ app.ui_search_text # << >>
  /\ app.shown_glyph_cache # << >>
  /\ app.recently_used # << >>

\* C17: a frame that empties the text of the search field while Search is
\* selected, by an edit or by the cancel button, ends with the selection of
\* a fresh GlyphanaApp, and no frame ends with Search selected over an empty
\* search field.
C17_EmptyTextDeselectsSearch ==
  [][/\ (SearchSelected /\ app.ui_search_text # << >>
                        /\ app'.ui_search_text = << >>)
          => app'.selected_category = GlyphanaApp_default.selected_category
     /\ ~(app'.selected_category = 2 /\ app'.ui_search_text = << >>)]_vars

\* The GlyphanaApp after the frame with the click of the entry index of the
\* categories panel.
AfterSelectCategory(index) ==
  update(app, [kind |-> "SelectCategory", index |-> index])

\* The glyphs of the selection of a GlyphanaApp: those its search finds when
\* Search is selected, else those of the selected entry.
Displayed(self) ==
  collect(SelectSeq(self.full_glyph_cache,
                    LAMBDA e : IF self.selected_category = 2
                                 THEN search_filter(self, e)
                                 ELSE category_filter(self, e)))

\* C18: the click of an entry of the categories panel other than the
\* selected one, while the search field holds text, leaves that text as it
\* is, selects the entry clicked and shows the glyphs of that entry.
C18_SelectionKeepsText ==
  \A index \in selectable(app) :
    (app.ui_search_text # << >> /\ index # app.selected_category)
      => /\ AfterSelectCategory(index).ui_search_text = app.ui_search_text
         /\ AfterSelectCategory(index).selected_category = index
         /\ AfterSelectCategory(index).shown_glyph_cache
              = Displayed(AfterSelectCategory(index))

\* A category is selected over a search field that holds text, and shows a
\* glyph that the search for the text does not find.
C18_Witness ==
  /\ app.ui_search_text # << >>
  /\ app.selected_category >= CAT_START
  /\ \E i \in DOMAIN app.shown_glyph_cache :
       ~search_filter(app, app.shown_glyph_cache[i])

\* C19: the click of the category that is selected deselects it, so that
\* two clicks in a row of a category, made while the selection is that of a
\* fresh GlyphanaApp, end with that selection again.
C19_SecondClickDeselects ==
  \A index \in selectable(app) :
    index >= CAT_START
      => /\ index = app.selected_category
              => AfterSelectCategory(index).selected_category # index
         /\ app.selected_category = GlyphanaApp_default.selected_category
              => update(AfterSelectCategory(index),
                        [kind |-> "SelectCategory", index |-> index])
                   .selected_category = app.selected_category

\* The glyphs that update_search_text_and_shown_glyph_cache computes from
\* the search field, the flags, the selection, recently_used and collection
\* as they are.
FreshlyComputed ==
  update_search_text_and_shown_glyph_cache(app).shown_glyph_cache

\* C25: after every frame, whatever its input, the glyphs shown are those
\* freshly computed from the text of the search field, the flags, the
\* selection, recently_used and collection.
C25_DisplayNeverStale ==
  app.shown_glyph_cache = FreshlyComputed

\* C30: after any frames and restarts selected_category is 0, 1, 2 or
\* CAT_START + i for a position i of categories, counted from 0, so that
\* selected_category - CAT_START neither underflows nor passes the end of
\* categories where the display update indexes them.
C30_SelectionInRange ==
  \/ app.selected_category \in {0, 1, 2}
  \/ /\ app.selected_category >= CAT_START
     /\ app.selected_category - CAT_START < Len(app.categories)

\* The last category is selected and the display update has found glyphs
\* of it.
C30_Witness ==
  /\ app.selected_category = CAT_START + Len(app.categories) - 1
  /\ app.shown_glyph_cache = FreshlyComputed
  /\ app.shown_glyph_cache # << >>

(***************************************************************************)
(* ClassifierSpec: one UnicodeCategory of categories.rs asked for its      *)
(* characters() and whether it contains() a char, in either order.         *)
(***************************************************************************)

\* The categories inspected: each variant, and each PropertyType.
InspectedCategories ==
  { BlockCategory(Block("Greek and Coptic")),
    BlockCategory(Block("Currency Symbols")),
    MultiBlockCategory(<< Block("Basic Latin"), Block("Latin-1 Supplement") >>),
    MultiBlockCategory(<< Block("Emoticons"), Block("Arrows") >>),
    CollectionCategory({65, 97, 128512}),
    CollectionCategory({}) }
    \cup { PropertyCategory(prop) :
             prop \in { "UppercaseLetters", "LowercaseLetters", "MathSymbols",
                        "CurrencySymbols", "Punctuation", "DecimalNumbers",
                        "AllLetters", "AllNumbers", "AllSymbols" } }

\* The chars asked about: '$' '+' '0' 'A' 'a', U+00FF, U+0100, Greek
\* capital and small alpha, Armenian capital ayb, Arabic-Indic digit zero,
\* the hyphen U+2010, the euro sign, the leftwards arrow and U+1F600.
InspectedChars ==
  { 36, 43, 48, 65, 97, 255, 256, 913, 945, 1329, 1632, 8208, 8364, 8592,
    128512 }

ClassifierInit ==
  /\ NoSearch
  /\ NoApp
  /\ inspector \in InspectedCategories
  /\ inspected_char \in InspectedChars
  /\ characters_result = None
  /\ contains_result = None

\* let chars = category.characters().
CallCharacters ==
  /\ characters_result = None
  /\ characters_result' = Some(characters(inspector))
  /\ UNCHANGED << inspector, inspected_char, contains_result >>
  /\ UNCHANGED << searchVars, appVars >>

\* let found = category.contains(c).
CallContains ==
  /\ contains_result = None
  /\ contains_result' = Some(category_contains(inspector, inspected_char))
  /\ UNCHANGED << inspector, inspected_char, characters_result >>
  /\ UNCHANGED << searchVars, appVars >>

ClassifierNext == CallCharacters \/ CallContains

ClassifierSpec == ClassifierInit /\ [][ClassifierNext]_vars

\* C10: for a category of any variant (Block, MultiBlock, Collection,
\* Property) and any char c, contains(c) is true exactly when c occurs in
\* the sequence characters() returns.
C10_ContainsIffEnumerated ==
  (IsSome(characters_result) /\ IsSome(contains_result))
    => (Unwrap(contains_result)
          <=> inspected_char \in Range(Unwrap(characters_result)))

=============================================================================
